---- MODULE Spec2Model ----
(***************************************************************************)
(* Market cross-sectional analytics of Stock_Key_Indicators_2:             *)
(* MarketAnalyzer (analysis/analyzer.py) with its two-tier median cache,   *)
(* the indicator_medians table behind Repository (data_provider/           *)
(* repository.py, models.py), the company-vs-market comparison loops       *)
(* (analyzer.py, orchestrator.py), FinancialCalculator (analysis/           *)
(* calculator.py) and the indicator rows of a company                       *)
(* (Orchestrator._calculate_indicators, _calculate_ttm_revenue_for_period). *)
(*                                                                         *)
(* Floats are modelled as fixed-point numbers in units of one half: a      *)
(* sample member is a whole number (an even count of halves), so the mean  *)
(* of two members, which np.median takes for an even-sized sample, is      *)
(* exact.  A Python value is a record [t, v]: t is its type tag.           *)
(***************************************************************************)
EXTENDS Integers, Sequences, FiniteSets, TLC

VARIABLES
    table,   \* indicator_medians: the rows, in insertion (rowid) order
    ver,     \* ver[a]: MarketAnalyzer.cache_version of instance a
    mem,     \* mem[a]: MarketAnalyzer._median_cache of instance a
    pc,      \* pc[a]: where instance a stands inside its current call
    arg,     \* arg[a]: arguments of a's current (or last) calculate_market_median
    loc,     \* loc[a]: the local `median` of a's current call
    cur,     \* cur[a]: outcome of a's current (or last) call
    prv,     \* prv[a]: outcome of the call before, when it had the same arguments
    audit,   \* whether arg, cur and prv are kept after a call returns
    cmp,     \* the comparison loop: its inputs, position and rows
    fin,     \* the inputs fixed at the start of a run (sample, arguments, series)
    fout,    \* the value the function applied to fin returned
    ind,     \* the run of Orchestrator._calculate_indicators: position and rows
    stmt,    \* the rows of one statement table, or of the three in an updater run
    upd      \* the run of an updater: its threads, locks and progress

vars == <<table, ver, mem, pc, arg, loc, cur, prv, audit, cmp, fin, fout, ind,
          stmt, upd>>

-----------------------------------------------------------------------------
(* Bounds of the model *)

MaxVal == 2
MaxLen == 3
MaxRaceLen == 1
MaxSeries == 2
MaxQuarters == 5
MaxPeriods == 5

-----------------------------------------------------------------------------
(* Python values *)

None == [t |-> "none", v |-> 0]
Pending == [t |-> "pending", v |-> 0]
NaN == [t |-> "nan", v |-> 0]
Garbage == [t |-> "str", v |-> 0]
Num(n) == [t |-> "num", v |-> n]

Wholes == {2 * k : k \in 0..MaxVal}
Members == {Num(n) : n \in Wholes} \cup {None, NaN}

SeqsUpTo(S, n) == UNION {[1..k -> S] : k \in 0..n}

Analyzers == {"a1", "a2"}
Versions == {"v1", "v2"}
Indicators == {<<"gm">>, <<"ar", "_", "t">>}
Dates == {"d1", "d2", "d3"}

-----------------------------------------------------------------------------
(* analyzer.py: the pure parts of calculate_market_median *)

\* f"{indicator_name}_{report_date}_{self.cache_version}"
CacheKey(i, d, v) == i \o <<"_", d, "_", v>>

\* a filter that skips a value that is no number instead of raising
IsNanLenient(s) == FALSE

\* np.isnan(v) raises TypeError on a value that is no number
IsNanRaises(s) == \E k \in 1..Len(s) : s[k].t = "str"

RECURSIVE SelectValid(_)
SelectValid(s) ==
    IF s = <<>> THEN <<>>
    ELSE IF s[1].t = "num" THEN <<s[1].v>> \o SelectValid(Tail(s))
    ELSE SelectValid(Tail(s))

\* [v for v in indicator_values if v is not None and not np.isnan(v)]
ValidValues(s) == SelectValid(s)

RECURSIVE Insert(_, _)
Insert(x, s) ==
    IF s = <<>> THEN <<x>>
    ELSE IF x <= s[1] THEN <<x>> \o s
    ELSE <<s[1]>> \o Insert(x, Tail(s))

RECURSIVE Sorted(_)
Sorted(s) == IF s = <<>> THEN <<>> ELSE Insert(s[1], Sorted(Tail(s)))

\* a median that takes the upper middle value of an even-sized list
NpMedianUpper(vs) == Sorted(vs)[Len(vs) \div 2 + 1]

\* np.median of a non-empty list: the middle of the sorted values, or the
\* mean of the two middle ones
NpMedian(vs) ==
    LET srt == Sorted(vs)
        n == Len(vs)
    IN  IF n % 2 = 1 THEN srt[(n + 1) \div 2]
        ELSE (srt[n \div 2] + srt[n \div 2 + 1]) \div 2

\* lines 58-65 and 72-73: what the computation gives before anything is saved
\* a computation that hands an empty sample's None on to the save
ComputeSavesEmpty(s) ==
    IF IsNanRaises(s) THEN [k |-> "raise", v |-> None]
    ELSE IF Len(ValidValues(s)) = 0 THEN [k |-> "value", v |-> None]
    ELSE [k |-> "value", v |-> Num(NpMedian(ValidValues(s)))]

Compute(s) ==
    IF IsNanRaises(s) THEN [k |-> "raise", v |-> None]
    ELSE IF Len(ValidValues(s)) = 0 THEN [k |-> "empty", v |-> None]
    ELSE [k |-> "value", v |-> Num(NpMedian(ValidValues(s)))]

\* a comparison that leaves ties out
CountLeqStrict(vs, x) == Cardinality({k \in 1..Len(vs) : vs[k] < x.v})

\* np.sum(np.array(valid_values) <= value): a NaN value compares False with
\* every member
CountLeq(vs, x) ==
    IF x.t = "nan" THEN 0
    ELSE Cardinality({k \in 1..Len(vs) : vs[k] <= x.v})

\* a count over length, the quotient float(percentile)
Frac(n, d) == [t |-> "frac", v |-> <<n, d>>]

\* MarketAnalyzer.calculate_percentile: the filter raises on garbage, the
\* comparison raises on a value that is None or no number, and line 101 turns
\* either into None
CalculatePercentile(value, s) ==
    IF IsNanRaises(s) THEN None
    ELSE IF Len(ValidValues(s)) = 0 THEN None
    ELSE IF value.t \notin {"num", "nan"} THEN None
    ELSE Frac(CountLeq(ValidValues(s), value), Len(ValidValues(s)))

-----------------------------------------------------------------------------
(* models.py, repository.py: the indicator_medians table *)

Row(i, d, m, v) ==
    [indicator_name |-> i, report_date |-> d, median_value |-> m, cache_version |-> v]

Matches(r, i, d, v) ==
    r.indicator_name = i /\ r.report_date = d /\ r.cache_version = v

\* session.query(IndicatorMedian).filter_by(...).first()
FirstMatch(t, i, d, v) ==
    LET hits == {k \in 1..Len(t) : Matches(t[k], i, d, v)}
    IN  IF hits = {} THEN None
        ELSE t[CHOOSE k \in hits : \A j \in hits : k <= j].median_value

\* a table declared without its uniqueness constraint
UniqueOff(t, r) == TRUE

\* UniqueConstraint("indicator_name", "report_date", "cache_version")
UniqueOk(t, r) ==
    \A k \in 1..Len(t) :
        ~Matches(t[k], r.indicator_name, r.report_date, r.cache_version)

\* a delete that forgets its filter
ClearRowsAll(t, v) == <<>>

\* session.query(IndicatorMedian).filter_by(cache_version=cache_version).delete()
ClearRows(t, v) == SelectSeq(t, LAMBDA r : r.cache_version # v)

\* a persistent tier that is never read
GetCachedMedianMiss(t, i, d, v) == None

\* MarketAnalyzer._get_cached_median
GetCachedMedian(t, i, d, v) == FirstMatch(t, i, d, v)

-----------------------------------------------------------------------------
(* State after construction *)

\* cur[a].out tells how the call ended: "mem" and "db" are hits of the two
\* tiers, "empty" a sample with no valid member, "raise" an exception inside
\* the try block before the save, "exists" a save that found the row there,
\* "inserted" a save that wrote it, "conflict" a save whose INSERT was rejected;
\* "cleared" marks a finished clear_cache, "cleared_beside" one that ran while
\* the table held rows of another version
NoCall == [done |-> FALSE, res |-> None, saves |-> 0, out |-> "none"]
NoPrev == [same |-> FALSE, res |-> None, saves |-> 0, out |-> "none"]
NoArg == [ind |-> <<>>, date |-> "", sample |-> <<>>]
NoCmp == [path |-> "", st |-> "off", ind |-> <<>>, series |-> <<>>, market |-> <<>>,
          idx |-> 0, rows |-> <<>>]

\* no updater runs
NoUpd == [st |-> "off"]

NoInd == [st |-> "off", i |-> 0, ttm |-> None, row |-> <<>>, results |-> <<>>]
EmptyDict == [k \in {} |-> None]

InitCache ==
    /\ table = <<>>
    /\ mem = [a \in Analyzers |-> EmptyDict]
    /\ pc = [a \in Analyzers |-> "idle"]
    /\ arg = [a \in Analyzers |-> NoArg]
    /\ loc = [a \in Analyzers |-> None]
    /\ cur = [a \in Analyzers |-> NoCall]
    /\ prv = [a \in Analyzers |-> NoPrev]

InitIdle ==
    /\ cmp = NoCmp
    /\ ind = NoInd
    /\ stmt = <<>>
    /\ upd = NoUpd
    /\ fin = <<>>
    /\ fout = Pending

\* MarketAnalyzer.__init__: every instance is given its cache_version
Init ==
    /\ ver \in [Analyzers -> Versions]
    /\ audit = FALSE
    /\ InitCache
    /\ InitIdle

-----------------------------------------------------------------------------
(* MarketAnalyzer.calculate_market_median, one step per access to the store *)

Key(a) == CacheKey(arg[a].ind, arg[a].date, ver[a])

\* the call returns r
Return(a, r, out, nsaves) ==
    /\ pc' = [pc EXCEPT ![a] = "idle"]
    /\ arg' = IF audit THEN arg ELSE [arg EXCEPT ![a] = NoArg]
    /\ cur' = [cur EXCEPT ![a] = [done |-> TRUE, res |-> r, saves |-> nsaves,
                                  out |-> out]]

\* lines 47-49: the in-process cache is looked up; a hit returns at once
Call(a, i, d, s) ==
    /\ pc[a] = "idle"
    /\ prv' = [prv EXCEPT ![a] =
                 IF audit /\ cur[a].done
                          /\ arg[a] = [ind |-> i, date |-> d, sample |-> s]
                 THEN [same |-> TRUE, res |-> cur[a].res, saves |-> cur[a].saves,
                       out |-> cur[a].out]
                 ELSE NoPrev]
    /\ IF CacheKey(i, d, ver[a]) \in DOMAIN mem[a]
       THEN /\ pc' = pc
            /\ arg' = [arg EXCEPT ![a] = IF audit
                                          THEN [ind |-> i, date |-> d, sample |-> s]
                                          ELSE NoArg]
            /\ cur' = [cur EXCEPT ![a] =
                         [done |-> TRUE, res |-> mem[a][CacheKey(i, d, ver[a])],
                          saves |-> 0, out |-> "mem"]]
       ELSE /\ pc' = [pc EXCEPT ![a] = "lookup"]
            /\ arg' = [arg EXCEPT ![a] = [ind |-> i, date |-> d, sample |-> s]]
            /\ cur' = [cur EXCEPT ![a] = NoCall]
    /\ UNCHANGED <<table, ver, mem, loc, audit, fin, fout, ind, stmt, upd>>

\* lines 52-65: the persistent cache is read; a hit fills the in-process cache,
\* a miss computes the median (or returns None)
DbLookup(a) ==
    /\ pc[a] = "lookup"
    /\ LET cached == GetCachedMedian(table, arg[a].ind, arg[a].date, ver[a])
           c == Compute(arg[a].sample)
       IN  IF cached # None
           THEN /\ mem' = [mem EXCEPT ![a] = (Key(a) :> cached) @@ mem[a]]
                /\ Return(a, cached, "db", 0)
                /\ UNCHANGED loc
           ELSE IF c.k = "value"
           THEN /\ loc' = [loc EXCEPT ![a] = c.v]
                /\ pc' = [pc EXCEPT ![a] = "save_check"]
                /\ arg' = IF audit THEN arg ELSE [arg EXCEPT ![a].sample = <<>>]
                /\ UNCHANGED <<mem, cur>>
           ELSE /\ Return(a, None, c.k, 0)
                /\ UNCHANGED <<mem, loc>>
    /\ UNCHANGED <<table, ver, prv, audit, cmp, fin, fout, ind, stmt, upd>>

\* a save that overwrites the stored median when the row exists
SaveCheckUpsert(a) ==
    /\ pc[a] = "save_check"
    /\ IF FirstMatch(table, arg[a].ind, arg[a].date, ver[a]) # None
       THEN /\ table' = [k \in 1..Len(table) |->
                           IF Matches(table[k], arg[a].ind, arg[a].date, ver[a])
                           THEN [table[k] EXCEPT !.median_value = loc[a]]
                           ELSE table[k]]
            /\ mem' = [mem EXCEPT ![a] = (Key(a) :> loc[a]) @@ mem[a]]
            /\ Return(a, loc[a], "exists", 1)
       ELSE /\ pc' = [pc EXCEPT ![a] = "save_commit"]
            /\ cur' = [cur EXCEPT ![a].saves = 1]
            /\ UNCHANGED <<table, mem, arg>>
    /\ UNCHANGED <<ver, loc, prv, audit, cmp, fin, fout, ind, stmt, upd>>

\* repository.py 251-260: save_indicator_median looks for an existing row; when
\* there is one nothing is written, and lines 69-71 of the analyzer follow
SaveCheck(a) ==
    /\ pc[a] = "save_check"
    /\ IF FirstMatch(table, arg[a].ind, arg[a].date, ver[a]) # None
       THEN /\ mem' = [mem EXCEPT ![a] = (Key(a) :> loc[a]) @@ mem[a]]
            /\ Return(a, loc[a], "exists", 1)
       ELSE /\ pc' = [pc EXCEPT ![a] = "save_commit"]
            /\ cur' = [cur EXCEPT ![a].saves = 1]
            /\ UNCHANGED <<mem, arg>>
    /\ UNCHANGED <<table, ver, loc, prv, audit, cmp, fin, fout, ind, stmt, upd>>

\* repository.py 261-270: the INSERT and its commit.  The table's uniqueness
\* constraint rejects a second row of the key with an IntegrityError, which
\* save_indicator_median lets through and line 72 of the analyzer turns into None
SaveCommit(a) ==
    /\ pc[a] = "save_commit"
    /\ LET r == Row(arg[a].ind, arg[a].date, loc[a], ver[a])
       IN  IF UniqueOk(table, r)
           THEN /\ table' = Append(table, r)
                /\ mem' = [mem EXCEPT ![a] = (Key(a) :> loc[a]) @@ mem[a]]
                /\ Return(a, loc[a], "inserted", 1)
           ELSE /\ Return(a, None, "conflict", 1)
                /\ UNCHANGED <<table, mem>>
    /\ UNCHANGED <<ver, loc, prv, audit, cmp, fin, fout, ind, stmt, upd>>

\* MarketAnalyzer.clear_cache, line 209: the in-process cache is emptied
ClearCache(a) ==
    /\ pc[a] = "idle"
    /\ mem' = [mem EXCEPT ![a] = EmptyDict]
    /\ pc' = [pc EXCEPT ![a] = "clear_db"]
    /\ cur' = [cur EXCEPT ![a] = NoCall]
    /\ prv' = [prv EXCEPT ![a] = NoPrev]
    /\ arg' = [arg EXCEPT ![a] = NoArg]
    /\ loc' = [loc EXCEPT ![a] = None]
    /\ UNCHANGED <<table, ver, audit, cmp, fin, fout, ind, stmt, upd>>

\* line 212, Repository.clear_cache: the rows of the version are deleted
ClearDb(a) ==
    /\ pc[a] = "clear_db"
    /\ table' = ClearRows(table, ver[a])
    /\ pc' = [pc EXCEPT ![a] = "idle"]
    /\ cur' = [cur EXCEPT ![a].out =
                 IF \E k \in 1..Len(table) : table[k].cache_version # ver[a]
                 THEN "cleared_beside" ELSE "cleared"]
    /\ UNCHANGED <<ver, mem, arg, loc, prv, audit, cmp, fin, fout, ind, stmt, upd>>

-----------------------------------------------------------------------------
(* Concurrent analysis runs that share one store *)

RaceMembers == {Num(n) : n \in Wholes} \cup {None, Garbage}
RaceSamples == SeqsUpTo(RaceMembers, MaxRaceLen)
RaceInd == <<"gm">>
RaceDates == {"d1"}

Calls(a) ==
    \E d \in RaceDates, s \in RaceSamples : Call(a, RaceInd, d, s) /\ UNCHANGED cmp

Next ==
    \E a \in Analyzers :
        \/ Calls(a)
        \/ DbLookup(a)
        \/ SaveCheck(a)
        \/ SaveCommit(a)
        \/ ClearCache(a)
        \/ ClearDb(a)

Spec == Init /\ [][Next]_vars

\* the same runs, with each instance's previous call kept for comparison
InitTwice ==
    /\ ver \in [Analyzers -> Versions]
    /\ audit = TRUE
    /\ InitCache
    /\ InitIdle

SpecTwice == InitTwice /\ [][Next]_vars

\* runs with the previous call kept, whose samples are two without a valid
\* member and two of different medians
HitSamples == {<<>>, <<None>>, <<Num(0)>>, <<Num(4)>>}

CallsHit(a) ==
    \E d \in RaceDates, s \in HitSamples : Call(a, RaceInd, d, s) /\ UNCHANGED cmp

NextHit ==
    \E a \in Analyzers :
        \/ CallsHit(a)
        \/ DbLookup(a)
        \/ SaveCheck(a)
        \/ SaveCommit(a)
        \/ ClearCache(a)
        \/ ClearDb(a)

SpecHit == InitTwice /\ [][NextHit]_vars

-----------------------------------------------------------------------------
(* Runs whose calls all pass one sample, fixed at the start: fin is the    *)
(* indicator_values argument, drawn from every sample up to MaxLen        *)

Samples == SeqsUpTo(Members \cup {Garbage}, MaxLen)

InitSeq ==
    /\ ver \in [Analyzers -> Versions]
    /\ audit = FALSE
    /\ InitCache
    /\ ind = NoInd
    /\ stmt = <<>>
    /\ upd = NoUpd
    /\ cmp = NoCmp
    /\ fin \in Samples
    /\ fout = Pending

CallsSeq(a) ==
    \E d \in RaceDates : Call(a, RaceInd, d, fin) /\ UNCHANGED cmp

NextSeq ==
    \E a \in Analyzers :
        \/ CallsSeq(a)
        \/ DbLookup(a)
        \/ SaveCheck(a)
        \/ SaveCommit(a)
        \/ ClearCache(a)
        \/ ClearDb(a)

SpecSeq == InitSeq /\ [][NextSeq]_vars

-----------------------------------------------------------------------------
(* calculate_percentile on its own: fin is the pair of its arguments *)

PctValues ==
    {Num(n) : n \in (0 - 2)..(2 * MaxVal + 2)} \cup {None, NaN, Garbage}

InitPct ==
    /\ ver = [a \in Analyzers |-> "v1"]
    /\ audit = FALSE
    /\ InitCache
    /\ ind = NoInd
    /\ stmt = <<>>
    /\ upd = NoUpd
    /\ cmp = NoCmp
    /\ fin \in [value : PctValues, sample : Samples]
    /\ fout = Pending

Percentile ==
    /\ fout = Pending
    /\ fin # <<>>
    /\ fout' = CalculatePercentile(fin.value, fin.sample)
    /\ UNCHANGED <<table, ver, mem, pc, arg, loc, cur, prv, audit, cmp, fin, ind, stmt, upd>>

SpecPct == InitPct /\ [][Percentile]_vars

-----------------------------------------------------------------------------
(* The comparison loops: MarketAnalyzer.analyze_company_vs_market (path      *)
(* "analyzer") and the loop of Orchestrator._compare_with_market over one    *)
(* indicator (path "orchestrator"), driving instance a1.                     *)
(* fin holds the inputs: series, the company's (report_date, value) pairs    *)
(* in the order the loop meets them, and market, the sample of each date:    *)
(* the market_data dict, or the lists _get_market_indicator_values returns.  *)

\* report dates in calendar order
DateNo(d) == CHOOSE n \in 1..3 : <<"d1", "d2", "d3">>[n] = d

CmpValues == {Num(2), None}
CmpSamples == {<<>>, <<None>>, <<Num(0), Num(4)>>}

\* sequences of pairs with pairwise different dates
SeriesOver(n) ==
    {q \in SeqsUpTo([date : Dates, value : CmpValues], n) :
        \A j, k \in 1..Len(q) : q[j].date = q[k].date => j = k}

Ascending(q) == \A k \in 1..(Len(q) - 1) : DateNo(q[k].date) < DateNo(q[k + 1].date)

\* company_data[indicator_col].notna()
NotNa(x) == x.t = "num"

\* an orchestrator that tests the market values for None alone
HasMarketDataKeyOnly(path, market, d) == d \in DOMAIN market

\* analyzer.py 257: report_date not in market_data;
\* orchestrator.py 463: market_values is None or len(market_values) == 0
HasMarketData(path, market, d) ==
    IF path = "analyzer" THEN d \in DOMAIN market
    ELSE d \in DOMAIN market /\ Len(market[d]) # 0

InitCmp ==
    /\ ver = [a \in Analyzers |-> "v1"]
    /\ audit = FALSE
    /\ InitCache
    /\ ind = NoInd
    /\ stmt = <<>>
    /\ upd = NoUpd
    /\ fout = Pending
    /\ \E i \in Indicators :
          cmp = [path |-> "", st |-> "init", ind |-> i, series |-> <<>>,
                 market |-> <<>>, idx |-> 0, rows |-> <<>>]
    /\ \/ /\ fin \in [path : {"analyzer"}, series : SeriesOver(MaxSeries),
                      market : UNION {[D -> CmpSamples] : D \in SUBSET Dates}]
       \/ /\ fin \in [path : {"orchestrator"},
                      series : {q \in SeriesOver(MaxSeries) : Ascending(q)},
                      market : [Dates -> CmpSamples]]

\* analyzer.py 254; orchestrator.py 444-451: the rows of the indicator that
\* are not null are kept, and an indicator with none is passed over
CmpStart ==
    /\ cmp.st = "init"
    /\ LET kept == IF fin.path = "orchestrator"
                   THEN SelectSeq(fin.series, LAMBDA r : NotNa(r.value))
                   ELSE fin.series
       IN  cmp' = [cmp EXCEPT !.path = fin.path,
                              !.series = kept,
                              !.market = fin.market,
                              !.idx = 1,
                              !.st = IF fin.path = "orchestrator" /\ Len(kept) = 0
                                     THEN "done" ELSE "loop"]
    /\ UNCHANGED <<table, ver, mem, pc, arg, loc, cur, prv, audit, fin, fout, ind, stmt, upd>>

CmpAt == cmp.series[cmp.idx]

\* analyzer.py 257-258; orchestrator.py 463-464: continue
CmpSkip ==
    /\ cmp.st = "loop"
    /\ cmp.idx <= Len(cmp.series)
    /\ ~HasMarketData(cmp.path, cmp.market, CmpAt.date)
    /\ cmp' = [cmp EXCEPT !.idx = cmp.idx + 1]
    /\ UNCHANGED <<table, ver, mem, pc, arg, loc, cur, prv, audit, fin, fout, ind, stmt, upd>>

\* analyzer.py 263-267; orchestrator.py 467-471
CmpCall ==
    /\ cmp.st = "loop"
    /\ cmp.idx <= Len(cmp.series)
    /\ HasMarketData(cmp.path, cmp.market, CmpAt.date)
    /\ Call("a1", cmp.ind, CmpAt.date, cmp.market[CmpAt.date])
    /\ cmp' = [cmp EXCEPT !.st = "call"]

\* analyzer.py 270-281; orchestrator.py 474-484: the percentile is computed
\* and the row appended
CmpCollect ==
    /\ cmp.st = "call"
    /\ pc["a1"] = "idle"
    /\ cmp' = [cmp EXCEPT
                 !.rows = Append(cmp.rows,
                     [report_date |-> CmpAt.date,
                      company_value |-> CmpAt.value,
                      market_median |-> cur["a1"].res,
                      percentile |-> CalculatePercentile(CmpAt.value,
                                                         cmp.market[CmpAt.date])]),
                 !.idx = cmp.idx + 1,
                 !.st = "loop"]
    /\ UNCHANGED <<table, ver, mem, pc, arg, loc, cur, prv, audit, fin, fout, ind, stmt, upd>>

\* analyzer.py 283; orchestrator.py 486-487: the loop is over
CmpFinish ==
    /\ cmp.st = "loop"
    /\ cmp.idx > Len(cmp.series)
    /\ cmp' = [cmp EXCEPT !.st = "done"]
    /\ UNCHANGED <<table, ver, mem, pc, arg, loc, cur, prv, audit, fin, fout, ind, stmt, upd>>

NextCmp ==
    \/ CmpStart
    \/ CmpSkip
    \/ CmpCall
    \/ DbLookup("a1")
    \/ SaveCheck("a1")
    \/ SaveCommit("a1")
    \/ CmpCollect
    \/ CmpFinish

SpecCmp == InitCmp /\ [][NextCmp]_vars

-----------------------------------------------------------------------------
(* analysis/calculator.py: FinancialCalculator.  An amount is a whole       *)
(* number Num(n) or None, a quotient n / d is Frac(n, d), kept unreduced,   *)
(* and an exception in flight is the value Raise(e).  An average (b + e)/2  *)
(* is carried as its double b + e: revenue / average = 2 revenue / (b + e). *)

IsNum(x) == x.t = "num"
Raise(e) == [t |-> "raise", v |-> e]
Raised(x) == x.t = "raise"

\* a float: a number or nan
IsFloat(x) == x.t \in {"num", "nan"}

\* x + y
Add(x, y) ==
    IF Raised(x) THEN x
    ELSE IF Raised(y) THEN y
    ELSE IF IsNum(x) /\ IsNum(y) THEN Num(x.v + y.v)
    ELSE IF IsFloat(x) /\ IsFloat(y) THEN NaN
    ELSE Raise("TypeError")

\* x - y
Sub(x, y) ==
    IF Raised(x) THEN x
    ELSE IF Raised(y) THEN y
    ELSE IF IsNum(x) /\ IsNum(y) THEN Num(x.v - y.v)
    ELSE IF IsFloat(x) /\ IsFloat(y) THEN NaN
    ELSE Raise("TypeError")

\* x / y
TrueDiv(x, y) ==
    IF Raised(x) THEN x
    ELSE IF Raised(y) THEN y
    ELSE IF ~(IsFloat(x) /\ IsFloat(y)) THEN Raise("TypeError")
    ELSE IF IsNum(y) /\ y.v = 0 THEN Raise("ZeroDivisionError")
    ELSE IF IsNum(x) /\ IsNum(y) THEN Frac(x.v, y.v)
    ELSE NaN

\* x == 0 (None == 0 is False)
IsZero(x) == IsNum(x) /\ x.v = 0

Twice(x) == IF IsNum(x) THEN Num(2 * x.v) ELSE x

\* except (...): return None
Except(r, caught) == IF Raised(r) /\ r.v \in caught THEN None ELSE r

DivErrors == {"TypeError", "ZeroDivisionError"}
SumErrors == {"TypeError", "ValueError"}

\* a net profit divided by the closing equity alone
calculate_roe_end_only(net_profit, equity_begin, equity_end) ==
    Except(IF IsZero(equity_end) THEN None
           ELSE TrueDiv(net_profit, equity_end), DivErrors)

calculate_roe(net_profit, equity_begin, equity_end) ==
    LET avg2 == Add(equity_begin, equity_end)
    IN  Except(IF Raised(avg2) THEN avg2
               ELSE IF IsZero(avg2) THEN None
               ELSE TrueDiv(Twice(net_profit), avg2), DivErrors)

calculate_accounts_receivable_turnover(revenue_ttm, ar_begin, ar_end) ==
    LET avg2 == Add(ar_begin, ar_end)
    IN  Except(IF Raised(avg2) THEN avg2
               ELSE IF IsZero(avg2) THEN None
               ELSE TrueDiv(Twice(revenue_ttm), avg2), DivErrors)

calculate_gross_profit_margin(revenue, cost) ==
    Except(IF IsZero(revenue) THEN None
           ELSE TrueDiv(Sub(revenue, cost), revenue), DivErrors)

calculate_long_term_asset_turnover(revenue_ttm, noncurrent_assets_begin, noncurrent_assets_end) ==
    LET avg2 == Add(noncurrent_assets_begin, noncurrent_assets_end)
    IN  Except(IF Raised(avg2) THEN avg2
               ELSE IF IsZero(avg2) THEN None
               ELSE TrueDiv(Twice(revenue_ttm), avg2), DivErrors)

calculate_operating_cashflow_ratio(operating_cashflow, total_assets) ==
    Except(IF IsZero(total_assets) THEN None
           ELSE TrueDiv(operating_cashflow, total_assets), DivErrors)

\* a component passed on as it is
OrZeroStrict(x) == x

\* x or 0
OrZero(x) == IF x = None \/ IsZero(x) THEN Num(0) ELSE x

calculate_working_capital_ratio(accounts_receivable, notes_receivable, receivables_financing, contract_assets, accounts_payable, notes_payable, contract_liabilities, total_assets) ==
    LET ar == OrZero(accounts_receivable)
        nr == OrZero(notes_receivable)
        rf == OrZero(receivables_financing)
        ca == OrZero(contract_assets)
        ap == OrZero(accounts_payable)
        np == OrZero(notes_payable)
        cl == OrZero(contract_liabilities)
        working_capital ==
            Sub(Sub(Sub(Add(Add(Add(ar, nr), rf), ca), ap), np), cl)
    IN  Except(IF Raised(working_capital) THEN working_capital
               ELSE IF IsZero(total_assets) THEN None
               ELSE TrueDiv(working_capital, total_assets), DivErrors)

\* sum(valid_revenues)
RECURSIVE SumOf(_)
SumOf(q) == IF q = <<>> THEN Num(0) ELSE Add(q[1], SumOf(Tail(q)))

\* a sum over the whole list
calculate_ttm_revenue_whole(quarterly_revenues) ==
    IF Len(quarterly_revenues) < 4 THEN None
    ELSE LET valid_revenues ==
                 SelectSeq(quarterly_revenues, LAMBDA r : r # None)
         IN  IF Len(valid_revenues) < 4 THEN None
             ELSE Except(SumOf(valid_revenues), SumErrors)

calculate_ttm_revenue(quarterly_revenues) ==
    IF Len(quarterly_revenues) < 4 THEN None
    ELSE LET valid_revenues ==
                 SelectSeq(SubSeq(quarterly_revenues, 1, 4), LAMBDA r : r # None)
         IN  IF Len(valid_revenues) < 4 THEN None
             ELSE Except(SumOf(valid_revenues), SumErrors)

\* a difference that is never let below zero
convert_cumulative_floored(current_cumulative, previous_cumulative) ==
    IF previous_cumulative = None THEN current_cumulative
    ELSE LET d == Sub(current_cumulative, previous_cumulative)
         IN  Except(IF IsNum(d) /\ d.v < 0 THEN Num(0) ELSE d, SumErrors)

convert_cumulative_to_quarterly(current_cumulative, previous_cumulative) ==
    IF previous_cumulative = None THEN current_cumulative
    ELSE Except(Sub(current_cumulative, previous_cumulative), SumErrors)

(* The calculator's functions, each applied once to arguments fixed at the  *)
(* start: fin.fn names the function and fin.args holds its arguments.       *)

Amounts == {Num(n) : n \in (0 - MaxVal)..MaxVal} \cup {None}
WcParts == {None, Num(0 - 1), Num(2)}
WcTotals == {None, Num(0), Num(4), Num(0 - 4)}
Quarterlies == {None, Num(1), Num(2)}

AveragedRatios == {"calculate_roe", "calculate_accounts_receivable_turnover",
                   "calculate_long_term_asset_turnover"}
PlainRatios == {"calculate_gross_profit_margin",
                "calculate_operating_cashflow_ratio"}

CalcInputs ==
    [fn : AveragedRatios, args : [1..3 -> Amounts]]
    \cup [fn : PlainRatios \cup {"convert_cumulative_to_quarterly"},
          args : [1..2 -> Amounts]]
    \cup [fn : {"calculate_working_capital_ratio"},
          args : {p \o <<t>> : p \in [1..7 -> WcParts], t \in WcTotals}]
    \cup [fn : {"calculate_ttm_revenue"},
          args : SeqsUpTo(Quarterlies, MaxQuarters)]

InitCalc ==
    /\ ver = [a \in Analyzers |-> "v1"]
    /\ audit = FALSE
    /\ InitCache
    /\ cmp = NoCmp
    /\ ind = NoInd
    /\ stmt = <<>>
    /\ upd = NoUpd
    /\ fin \in CalcInputs
    /\ fout = Pending

Returns(fn, r) ==
    /\ fout = Pending
    /\ fin.fn = fn
    /\ fout' = r
    /\ UNCHANGED <<table, ver, mem, pc, arg, loc, cur, prv, audit, cmp, fin, ind, stmt, upd>>

CalcRoe ==
    /\ fin.fn = "calculate_roe"
    /\ Returns("calculate_roe",
               calculate_roe(fin.args[1], fin.args[2], fin.args[3]))

CalcArTurnover ==
    /\ fin.fn = "calculate_accounts_receivable_turnover"
    /\ Returns("calculate_accounts_receivable_turnover",
               calculate_accounts_receivable_turnover(
                   fin.args[1], fin.args[2], fin.args[3]))

CalcGrossMargin ==
    /\ fin.fn = "calculate_gross_profit_margin"
    /\ Returns("calculate_gross_profit_margin",
               calculate_gross_profit_margin(fin.args[1], fin.args[2]))

CalcLtTurnover ==
    /\ fin.fn = "calculate_long_term_asset_turnover"
    /\ Returns("calculate_long_term_asset_turnover",
               calculate_long_term_asset_turnover(
                   fin.args[1], fin.args[2], fin.args[3]))

CalcCashflowRatio ==
    /\ fin.fn = "calculate_operating_cashflow_ratio"
    /\ Returns("calculate_operating_cashflow_ratio",
               calculate_operating_cashflow_ratio(fin.args[1], fin.args[2]))

CalcWorkingCapital ==
    /\ fin.fn = "calculate_working_capital_ratio"
    /\ Returns("calculate_working_capital_ratio",
               calculate_working_capital_ratio(
                   fin.args[1], fin.args[2], fin.args[3], fin.args[4],
                   fin.args[5], fin.args[6], fin.args[7], fin.args[8]))

CalcTtm ==
    /\ fin.fn = "calculate_ttm_revenue"
    /\ Returns("calculate_ttm_revenue", calculate_ttm_revenue(fin.args))

CalcConvert ==
    /\ fin.fn = "convert_cumulative_to_quarterly"
    /\ Returns("convert_cumulative_to_quarterly",
               convert_cumulative_to_quarterly(fin.args[1], fin.args[2]))

NextCalc ==
    \/ CalcRoe
    \/ CalcArTurnover
    \/ CalcGrossMargin
    \/ CalcLtTurnover
    \/ CalcCashflowRatio
    \/ CalcWorkingCapital
    \/ CalcTtm
    \/ CalcConvert

SpecCalc == InitCalc /\ [][NextCalc]_vars

-----------------------------------------------------------------------------
(* orchestrator.py: Orchestrator._calculate_ttm_revenue_for_period.         *)
(* A report date is the number of its quarter, counted from the first       *)
(* quarter of the first year.  A cell of a DataFrame column is a number,    *)
(* nan where a column that holds numbers misses one, or None in a column    *)
(* that holds no number at all.  Rows are indexed from 1 here: Python's     *)
(* income_df.iloc[i] is income_df[i + 1].                                   *)

Quarters == 1..MaxPeriods

\* pd.to_datetime(report_date).year and .month
Year(d) == (d - 1) \div 4
Month(d) == 3 * (((d - 1) % 4) + 1)

\* the k-th smallest member of S
Nth(S, k) == CHOOSE x \in S : Cardinality({y \in S : y < x}) = k - 1

\* the income statements of the dates S in report_date order
\* (order_by(IncomeStatement.report_date)), c giving the revenue of each
IncomeOf(S, c) ==
    [k \in 1..Cardinality(S) |->
        [report_date |-> Nth(S, k), operating_revenue |-> c[Nth(S, k)]]]

\* a scan that stops at the first period of the year
PrevQuarterFirst(income_df, i) ==
    LET same == {j \in 1..(i - 1) :
                    /\ Year(income_df[j].report_date) = Year(income_df[i].report_date)
                    /\ income_df[j].operating_revenue # None}
    IN  IF same = {} THEN 0 ELSE CHOOSE j \in same : \A k \in same : j <= k

\* lines 384-395: the row the backward scan stops at, 0 when it finds none
PrevQuarter(income_df, i) ==
    LET same == {j \in 1..(i - 1) :
                    /\ Year(income_df[j].report_date) = Year(income_df[i].report_date)
                    /\ income_df[j].operating_revenue # None}
    IN  IF same = {} THEN 0 ELSE CHOOSE j \in same : \A k \in same : j >= k

\* every period taken for a first quarter
QuarterlyCumulative(income_df, i) == income_df[i].operating_revenue

\* lines 377-399: the single-quarter revenue of row i
Quarterly(income_df, i) ==
    LET cumulative == income_df[i].operating_revenue
        j == PrevQuarter(income_df, i)
    IN  IF Month(income_df[i].report_date) = 3 THEN cumulative
        ELSE IF j = 0 THEN cumulative
        ELSE Sub(cumulative, income_df[j].operating_revenue)

\* a test that lets every quarter pass
IsNegativeNever(x) == FALSE

\* quarterly < 0
IsNegative(x) == IsNum(x) /\ x.v < 0

\* lines 366-410: the loop from row i to row last, acc being quarterly_revenues
RECURSIVE TtmWindow(_, _, _, _)
TtmWindow(income_df, i, last, acc) ==
    IF i > last THEN [quarterly_revenues |-> acc, res |-> SumOf(acc)]
    ELSE IF i > Len(income_df)
         THEN [quarterly_revenues |-> acc, res |-> Raise("IndexError")]
    ELSE IF income_df[i].operating_revenue = None
         THEN [quarterly_revenues |-> acc, res |-> None]
    ELSE LET quarterly == Quarterly(income_df, i)
         IN  IF quarterly = None \/ IsNegative(quarterly)
             THEN [quarterly_revenues |-> acc, res |-> None]
             ELSE TtmWindow(income_df, i + 1, last, Append(acc, quarterly))

\* the value returned (res: a sum, None, or the exception that leaves the
\* function) and the local list quarterly_revenues at that moment
calculate_ttm_revenue_for_period(income_df, current_index) ==
    IF current_index < 3 THEN [quarterly_revenues |-> <<>>, res |-> None]
    ELSE TtmWindow(income_df, current_index - 2, current_index + 1, <<>>)

(* The function applied once: fin holds income_df and current_index *)

RevCells == {Num(0), Num(1), Num(2), Num(4), NaN}

\* the revenue columns over the dates S: numbers and nan, or None throughout
RevColumns(S) == [S -> RevCells] \cup {[d \in S |-> None]}

InitTtm ==
    /\ ver = [a \in Analyzers |-> "v1"]
    /\ audit = FALSE
    /\ InitCache
    /\ cmp = NoCmp
    /\ ind = NoInd
    /\ stmt = <<>>
    /\ upd = NoUpd
    /\ \E S \in (SUBSET Quarters) \ {{}} :
          \E c \in RevColumns(S), n \in 0..(MaxPeriods - 1) :
              fin = [income_df |-> IncomeOf(S, c), current_index |-> n]
    /\ fout = Pending

TtmForPeriod ==
    /\ fout = Pending
    /\ fout' = [t |-> "ttm",
                v |-> calculate_ttm_revenue_for_period(fin.income_df,
                                                       fin.current_index)]
    /\ UNCHANGED <<table, ver, mem, pc, arg, loc, cur, prv, audit, cmp, fin, ind, stmt, upd>>

SpecTtm == InitTtm /\ [][TtmForPeriod]_vars

-----------------------------------------------------------------------------
(* orchestrator.py: Orchestrator._calculate_indicators, one step for each   *)
(* turnover ratio of a period and one for the rest of the loop body.        *)
(* fin holds company_data: income_df, balance_df and cashflow_df.  Of the   *)
(* balance sheet the model keeps accounts_receivable and, for the eleven    *)
(* long-term operating asset columns, fixed_assets_net; of the indicator    *)
(* row it keeps report_date and the two turnover ratios (gross_margin,      *)
(* working_capital_ratio and operating_cashflow_ratio come from calculator  *)
(* functions that return None instead of raising).                          *)

DatesOf(df) == {df[k].report_date : k \in 1..Len(df)}

\* the statements of the dates S in report_date order
BalanceOf(S, c) ==
    [k \in 1..Cardinality(S) |->
        [report_date |-> Nth(S, k),
         accounts_receivable |-> c[Nth(S, k)],
         fixed_assets_net |-> Num(4)]]

CashflowOf(S) == [k \in 1..Cardinality(S) |-> [report_date |-> Nth(S, k)]]

\* the cell of column col at date d after the outer merge: nan where the
\* statement has no row of that date
CellAt(df, d, col) ==
    IF d \in DatesOf(df)
    THEN (df[CHOOSE k \in 1..Len(df) : df[k].report_date = d])[col]
    ELSE NaN

\* lines 230-232: the outer merge on report_date, sorted by report_date
MergedDf(company_data) ==
    LET D == DatesOf(company_data.balance_sheet)
             \cup DatesOf(company_data.income_statement)
             \cup DatesOf(company_data.cashflow_statement)
    IN  [k \in 1..Cardinality(D) |->
            [report_date |-> Nth(D, k),
             accounts_receivable |->
                 CellAt(company_data.balance_sheet, Nth(D, k), "accounts_receivable"),
             fixed_assets_net |->
                 CellAt(company_data.balance_sheet, Nth(D, k), "fixed_assets_net"),
             operating_revenue |->
                 CellAt(company_data.income_statement, Nth(D, k), "operating_revenue")]]

\* the truth value of x in `if x`
Truthy(x) == ~(x = None \/ IsZero(x))

\* x > 0
IsPositive(x) ==
    \/ IsNum(x) /\ x.v > 0
    \/ x.t = "frac" /\ x.v[1] * x.v[2] > 0

\* np.log(x)
Log(x) == [t |-> "log", v |-> x.v]

\* lines 263-265 and 310-312
LogIfPositive(x) == IF x # None /\ IsPositive(x) THEN Log(x) ELSE x

\* lines 283-285: safe_get
SafeGet(x) == IF x = None \/ x = NaN THEN Num(0) ELSE x

\* the binding of keyword arguments to the parameters of a function
CallByKeyword(parameters, keywords, result) ==
    IF keywords \subseteq parameters THEN result ELSE Raise("TypeError")

\* calculator.py 93-97
LtTurnoverParameters ==
    {"revenue_ttm", "noncurrent_assets_begin", "noncurrent_assets_end"}

\* orchestrator.py 305-307
LtTurnoverKeywords ==
    {"revenue_ttm", "long_term_operating_assets_begin",
     "long_term_operating_assets_end"}

IndRow == MergedDf(fin)[ind.i + 1]
IndPrevRow == MergedDf(fin)[ind.i]

\* lines 225-234
IndStart ==
    /\ ind.st = "off"
    /\ ind' = [ind EXCEPT !.st = "ar", !.i = 0]
    /\ UNCHANGED <<table, ver, mem, pc, arg, loc, cur, prv, audit, cmp, fin, fout, stmt, upd>>

\* lines 236-266: the TTM revenue of the period and its receivables turnover
IndArTurnover ==
    /\ ind.st = "ar"
    /\ ind.i < Len(MergedDf(fin))
    /\ LET ttm_revenue ==
               calculate_ttm_revenue_for_period(fin.income_statement, ind.i).res
           ar_turnover ==
               IF Truthy(ttm_revenue) /\ ind.i > 0
               THEN LogIfPositive(calculate_accounts_receivable_turnover(
                        ttm_revenue,
                        OrZero(IndPrevRow.accounts_receivable),
                        OrZero(IndRow.accounts_receivable)))
               ELSE None
       IN  IF Raised(ttm_revenue)
           THEN ind' = [ind EXCEPT !.st = "raised", !.ttm = ttm_revenue]
           ELSE ind' = [ind EXCEPT
                          !.st = "lt",
                          !.ttm = ttm_revenue,
                          !.row = [report_date |-> IndRow.report_date,
                                   ar_turnover |-> ar_turnover,
                                   lt_asset_turnover |-> None]]
    /\ UNCHANGED <<table, ver, mem, pc, arg, loc, cur, prv, audit, cmp, fin, fout, stmt, upd>>

\* lines 275-313: the long-term asset turnover of the period
IndLtTurnover ==
    /\ ind.st = "lt"
    /\ LET lt_turnover ==
               IF Truthy(ind.ttm) /\ ind.i > 0
               THEN CallByKeyword(LtTurnoverParameters, LtTurnoverKeywords,
                        calculate_long_term_asset_turnover(
                            ind.ttm,
                            SafeGet(IndPrevRow.fixed_assets_net),
                            SafeGet(IndRow.fixed_assets_net)))
               ELSE None
       IN  IF Raised(lt_turnover)
           THEN ind' = [ind EXCEPT !.st = "raised"]
           ELSE ind' = [ind EXCEPT
                          !.st = "rest",
                          !.row = [ind.row EXCEPT
                                     !.lt_asset_turnover = LogIfPositive(lt_turnover)]]
    /\ UNCHANGED <<table, ver, mem, pc, arg, loc, cur, prv, audit, cmp, fin, fout, stmt, upd>>

\* lines 268-273 and 315-341: the other ratios, and the row is appended
IndAppend ==
    /\ ind.st = "rest"
    /\ ind' = [ind EXCEPT !.st = "ar",
                          !.i = ind.i + 1,
                          !.ttm = None,
                          !.row = <<>>,
                          !.results = Append(ind.results, ind.row)]
    /\ UNCHANGED <<table, ver, mem, pc, arg, loc, cur, prv, audit, cmp, fin, fout, stmt, upd>>

\* line 343
IndReturn ==
    /\ ind.st = "ar"
    /\ ind.i = Len(MergedDf(fin))
    /\ ind' = [ind EXCEPT !.st = "returned"]
    /\ UNCHANGED <<table, ver, mem, pc, arg, loc, cur, prv, audit, cmp, fin, fout, stmt, upd>>

ArCells == {Num(0 - 2), Num(2), NaN}

\* the receivable columns over the dates S
ArColumns(S) == [S -> ArCells] \cup {[d \in S |-> None]}

\* a company whose cumulative revenue of quarter d is d
CompanyRevenue(S) == [d \in S |-> Num(d)]

\* line 161: none of the three statements is empty
InitInd ==
    /\ ver = [a \in Analyzers |-> "v1"]
    /\ audit = FALSE
    /\ InitCache
    /\ cmp = NoCmp
    /\ ind = NoInd
    /\ stmt = <<>>
    /\ upd = NoUpd
    /\ fout = Pending
    /\ \E I \in (SUBSET Quarters) \ {{}}, B \in (SUBSET Quarters) \ {{}} :
          \E c \in ArColumns(B), C \in {I, I \cup {MaxPeriods}} :
              fin = [income_statement |-> IncomeOf(I, CompanyRevenue(I)),
                     balance_sheet |-> BalanceOf(B, c),
                     cashflow_statement |-> CashflowOf(C)]

NextInd ==
    \/ IndStart
    \/ IndArTurnover
    \/ IndLtTurnover
    \/ IndAppend
    \/ IndReturn

SpecInd == InitInd /\ [][NextInd]_vars

-----------------------------------------------------------------------------
(* Properties of the two-tier cache under concurrent runs *)

RowKey(r) == CacheKey(r.indicator_name, r.report_date, r.cache_version)
RowsOf(t, v) == SelectSeq(t, LAMBDA r : r.cache_version = v)
RowsNotOf(t, v) == SelectSeq(t, LAMBDA r : r.cache_version # v)
HasRow(t, i, d, v) ==
    \E k \in 1..Len(t) :
        /\ t[k].indicator_name = i
        /\ t[k].report_date = d
        /\ t[k].cache_version = v
HasGarbage(s) == \E k \in 1..Len(s) : s[k] = Garbage
ClearedBy(a) == pc[a] = "clear_db" /\ pc'[a] = "idle"

ValidAt(s) == {k \in 1..Len(s) : s[k].t = "num"}
CountBelow(s, x) == Cardinality({k \in ValidAt(s) : s[k].v < x})
CountUpTo(s, x) == Cardinality({k \in ValidAt(s) : s[k].v <= x})

\* the k-th smallest valid member of s
Kth(s, k) ==
    CHOOSE x \in {s[j].v : j \in ValidAt(s)} :
        CountBelow(s, x) < k /\ k <= CountUpTo(s, x)

StdMedian(s) ==
    LET n == Cardinality(ValidAt(s))
    IN  IF n = 0 THEN None
        ELSE IF n % 2 = 1 THEN Num(Kth(s, (n + 1) \div 2))
        ELSE Num((Kth(s, n \div 2) + Kth(s, n \div 2 + 1)) \div 2)

\* C1: every key of an instance's in-process cache has a persistent row of the
\* same (indicator, report_date, cache_version) with the same median value.
C1_MemAgreesWithStore ==
    \A a \in Analyzers : \A k \in DOMAIN mem[a] :
        \E j \in 1..Len(table) :
            RowKey(table[j]) = k /\ table[j].median_value = mem[a][k]

\* C2: a call whose INSERT lost to the uniqueness constraint returns the median
\* it computed, as if its own write had succeeded.
C2_LoserReturnsMedian ==
    \A a \in Analyzers :
        (cur[a].done /\ cur[a].out = "conflict") => cur[a].res = loc[a]

\* C3: the persistent cache never holds two rows of one (indicator_name,
\* report_date, cache_version) triple.
C3_OneRowPerKey ==
    \A j, k \in 1..Len(table) :
        (table[j].indicator_name = table[k].indicator_name
            /\ table[j].report_date = table[k].report_date
            /\ table[j].cache_version = table[k].cache_version) => j = k

\* a writer's INSERT of a key was rejected while the key's row is stored
C3_Witness ==
    \E a \in Analyzers :
        /\ cur[a].done /\ cur[a].out = "conflict"
        /\ HasRow(table, RaceInd, "d1", ver[a])

\* C5: clear_cache of version v removes every row of v and leaves the rows of
\* every other version as they were; no step of calculate_market_median under
\* v changes a row of another version, and a persistent hit under v returns
\* the median of a row of v.
C5_VersionIsolation ==
    [][\A a \in Analyzers :
          /\ ClearedBy(a) =>
                /\ RowsOf(table', ver[a]) = <<>>
                /\ RowsNotOf(table', ver[a]) = RowsNotOf(table, ver[a])
          /\ (pc[a] \in {"lookup", "save_check", "save_commit"} /\ pc'[a] # pc[a]) =>
                RowsNotOf(table', ver[a]) = RowsNotOf(table, ver[a])
          /\ (pc[a] = "lookup" /\ pc'[a] = "idle" /\ cur'[a].out = "db") =>
                \E k \in 1..Len(table) :
                    /\ table[k].cache_version = ver[a]
                    /\ table[k].median_value = cur'[a].res]_vars

\* a clear_cache has run beside rows of the other version, which are still there
C5_Witness ==
    \E a \in Analyzers :
        /\ pc[a] = "idle" /\ cur[a].out = "cleared_beside"
        /\ RowsOf(table, ver[a]) = <<>>
        /\ RowsNotOf(table, ver[a]) # <<>>

\* C6: a stored row stays as it is until clear_cache of its own version deletes
\* it, and a save that finds the key's row returns normally with the table
\* unchanged.
C6_NeverMutated ==
    [][/\ \A k \in 1..Len(table) :
             \/ \E j \in 1..Len(table') : table'[j] = table[k]
             \/ \E a \in Analyzers :
                    ClearedBy(a) /\ ver[a] = table[k].cache_version
       /\ \A a \in Analyzers :
             (pc[a] = "save_check" /\ pc'[a] # pc[a]
                 /\ HasRow(table, arg[a].ind, arg[a].date, ver[a])) =>
                 /\ table' = table
                 /\ cur'[a] = [done |-> TRUE, res |-> loc[a], saves |-> 1,
                               out |-> "exists"]]_vars

\* a save found the key's row holding another median than the one it brought
C6_Witness ==
    \E a \in Analyzers :
        /\ cur[a].done /\ cur[a].out = "exists"
        /\ \E k \in 1..Len(table) :
               /\ table[k].cache_version = ver[a]
               /\ table[k].median_value # cur[a].res

\* C8: a call that reaches the computation with garbage in its sample, or whose
\* save fails, returns None and leaves both cache tiers as they were.
C8_ErrorGivesNone ==
    [][\A a \in Analyzers :
          (/\ pc'[a] # pc[a]
           /\ \/ /\ pc[a] = "lookup"
                 /\ ~HasRow(table, arg[a].ind, arg[a].date, ver[a])
                 /\ HasGarbage(arg[a].sample)
              \/ /\ pc[a] = "save_commit"
                 /\ HasRow(table, arg[a].ind, arg[a].date, ver[a])) =>
              /\ pc'[a] = "idle"
              /\ cur'[a].done /\ cur'[a].res = None
              /\ mem' = mem
              /\ table' = table]_vars

\* a call has ended in an exception raised by the filter on a sample that
\* holds a number beside the garbage
C8_Witness ==
    \E a \in Analyzers :
        /\ cur[a].done /\ cur[a].out = "raise" /\ cur[a].res = None
        /\ HasGarbage(fin) /\ ValidAt(fin) # {}

-----------------------------------------------------------------------------
(* Properties of one instance's calls *)

\* C4: when a call that missed both tiers on a sample with a valid member is
\* followed on the same instance by a call with the same arguments, both
\* return the same value and the save is invoked once across the two.
C4_TwiceSameOnce ==
    \A a \in Analyzers :
        (/\ cur[a].done /\ prv[a].same
         /\ prv[a].out \notin {"mem", "db"}
         /\ ~HasGarbage(arg[a].sample)
         /\ ValidAt(arg[a].sample) # {}) =>
            /\ cur[a].res = prv[a].res
            /\ prv[a].saves + cur[a].saves = 1

\* C7: a call that found the key in neither tier returns the standard median
\* of the valid members of its sample, and None when there is none.
C7_MedianCorrect ==
    \A a \in Analyzers :
        (/\ cur[a].done
         /\ cur[a].out \in {"inserted", "exists", "empty"}
         /\ ~HasGarbage(fin)) =>
            cur[a].res = StdMedian(fin)

\* a computed median of two different valid members beside an invalid one
C7_Witness ==
    \E a \in Analyzers :
        /\ cur[a].done /\ cur[a].out = "inserted"
        /\ Cardinality(ValidAt(fin)) = 2
        /\ Len(fin) = 3
        /\ cur[a].res \notin {fin[k] : k \in 1..Len(fin)}

-----------------------------------------------------------------------------
(* Properties of calculate_percentile *)

ValidVals(s) == {s[k].v : k \in ValidAt(s)}

\* C9: for a numeric value and a sample of numbers, None and NaN with a valid
\* member, the result is (valid members <= value) / (valid members); it lies
\* in [0, 1], is 1 at or above the maximum and 0 below the minimum; a sample
\* with no valid member gives None.
C9_Percentile ==
    (fout # Pending /\ fin.value.t = "num" /\ ~HasGarbage(fin.sample)) =>
        IF ValidAt(fin.sample) = {} THEN fout = None
        ELSE /\ fout = Frac(CountUpTo(fin.sample, fin.value.v),
                            Cardinality(ValidAt(fin.sample)))
             /\ 0 <= fout.v[1] /\ fout.v[1] <= fout.v[2]
             /\ (\A x \in ValidVals(fin.sample) : x <= fin.value.v) =>
                    fout.v[1] = fout.v[2]
             /\ (\A x \in ValidVals(fin.sample) : fin.value.v < x) =>
                    fout.v[1] = 0

\* a value that is no member of the sample ties with none, lies between two
\* members and is ranked beside an invalid one
C9_Witness ==
    /\ fout # Pending /\ fin.value.t = "num"
    /\ fin.value.v \notin ValidVals(fin.sample)
    /\ fout = Frac(1, 2)
    /\ Len(fin.sample) = 3

-----------------------------------------------------------------------------
(* Properties of the comparison loops *)

\* the dates of the company series: in the orchestrator, those whose
\* indicator value is not null
CompanyDates ==
    {fin.series[k].date : k \in {j \in 1..Len(fin.series) :
        fin.path = "analyzer" \/ fin.series[j].value.t = "num"}}

\* the dates that have market data: a key of market_data, and in the
\* orchestrator a sample that is not empty
MarketDates ==
    {d \in DOMAIN fin.market : fin.path = "analyzer" \/ fin.market[d] # <<>>}

RowsAt(d) == {k \in 1..Len(cmp.rows) : cmp.rows[k].report_date = d}

\* C10: the loop emits one row for each date of the company series that has
\* market data and none for any other date, and neither cache tier ever holds
\* a key of a date that was skipped.
C10_OneRowPerComparedDate ==
    /\ \A k \in 1..Len(table) :
          table[k].report_date \in CompanyDates \cap MarketDates
    /\ \A k \in DOMAIN mem["a1"] :
          \E d \in CompanyDates \cap MarketDates : k = CacheKey(cmp.ind, d, ver["a1"])
    /\ cmp.st = "done" =>
          \A d \in Dates :
              Cardinality(RowsAt(d)) =
                  IF d \in CompanyDates \cap MarketDates THEN 1 ELSE 0

\* an orchestrator loop has ended with a row for one date and none for a
\* date of the series whose market sample is empty
C10_Witness ==
    /\ cmp.st = "done" /\ fin.path = "orchestrator"
    /\ Len(cmp.rows) >= 1
    /\ \E d \in CompanyDates : fin.market[d] = <<>> /\ RowsAt(d) = {}
    /\ table # <<>>

\* C11: within one run of a comparison loop the rows come out in strictly
\* ascending report_date order, whatever company series and market mapping
\* the loop was given.
C11_RowsAscending ==
    \A k \in 1..(Len(cmp.rows) - 1) :
        DateNo(cmp.rows[k].report_date) < DateNo(cmp.rows[k + 1].report_date)

-----------------------------------------------------------------------------
(* Properties of the calculator's functions *)

Applied(fn) == fout # Pending /\ fin.fn = fn

\* numerator and denominator of each ratio, read off its formula; the
\* averaged ratios are taken over the double of the average
RatioNum(fn, a) ==
    IF fn \in AveragedRatios THEN 2 * a[1].v
    ELSE IF fn = "calculate_gross_profit_margin" THEN a[1].v - a[2].v
    ELSE a[1].v

RatioDen(fn, a) ==
    IF fn \in AveragedRatios THEN a[2].v + a[3].v
    ELSE IF fn = "calculate_gross_profit_margin" THEN a[1].v
    ELSE a[2].v

\* the quotient r equals n / d
IsQuotient(r, n, d) == r.t = "frac" /\ r.v[2] # 0 /\ r.v[1] * d = n * r.v[2]

\* C12: each of the five division-based ratio functions returns None when
\* its denominator is zero or one of its inputs is None, otherwise the
\* quotient itself, neither clamped nor rounded, and it never raises.
C12_RatioOrNoValue ==
    \A fn \in AveragedRatios \cup PlainRatios :
        Applied(fn) =>
            /\ ~Raised(fout)
            /\ IF \/ \E k \in DOMAIN fin.args : fin.args[k] = None
                  \/ RatioDen(fn, fin.args) = 0
               THEN fout = None
               ELSE IsQuotient(fout, RatioNum(fn, fin.args), RatioDen(fn, fin.args))

\* calculate_roe has returned a negative quotient of a profit and two
\* different equity balances
C12_Witness ==
    /\ Applied("calculate_roe")
    /\ fin.args[2] # fin.args[3]
    /\ fout.t = "frac"
    /\ fout.v[1] * fout.v[2] < 0

Zeroed(x) == IF x = None THEN 0 ELSE x.v

\* C13: calculate_working_capital_ratio counts a component that is None as
\* zero and returns (receivables side - payables side) / total_assets, and
\* returns None when total_assets is None or zero.
C13_WorkingCapitalDefaults ==
    Applied("calculate_working_capital_ratio") =>
        LET a == fin.args
            wc == Zeroed(a[1]) + Zeroed(a[2]) + Zeroed(a[3]) + Zeroed(a[4])
                  - Zeroed(a[5]) - Zeroed(a[6]) - Zeroed(a[7])
        IN  IF a[8] = None \/ a[8].v = 0 THEN fout = None
            ELSE IsQuotient(fout, wc, a[8].v)

\* a ratio other than zero has been returned although a component on each
\* side was None
C13_Witness ==
    /\ Applied("calculate_working_capital_ratio")
    /\ fin.args[2] = None /\ fin.args[6] = None
    /\ fin.args[1] # None /\ fin.args[5] # None
    /\ fout.t = "frac" /\ fout.v[1] # 0

\* C14: calculate_ttm_revenue returns the sum of the first four entries when
\* the list has at least four and none of those four is None, ignoring what
\* follows them, and None otherwise.
C14_TtmIsFirstFour ==
    Applied("calculate_ttm_revenue") =>
        LET q == fin.args
        IN  IF Len(q) >= 4 /\ \A k \in 1..4 : q[k] # None
            THEN fout = Num(q[1].v + q[2].v + q[3].v + q[4].v)
            ELSE fout = None

\* a sum has been returned for a list with a fifth entry
C14_Witness ==
    /\ Applied("calculate_ttm_revenue")
    /\ Len(fin.args) > 4
    /\ fin.args[5] # None
    /\ fout.t = "num"

\* C15: convert_cumulative_to_quarterly returns the current cumulative
\* figure as it is when the previous one is None and current - previous
\* otherwise, a negative difference included.
C15_CumulativeToQuarterly ==
    Applied("convert_cumulative_to_quarterly") =>
        IF fin.args[2] = None THEN fout = fin.args[1]
        ELSE IsNum(fin.args[1]) => fout = Num(fin.args[1].v - fin.args[2].v)

\* a negative single-quarter value has been returned
C15_Witness ==
    /\ Applied("convert_cumulative_to_quarterly")
    /\ IsNum(fin.args[2])
    /\ fout.t = "num" /\ fout.v < 0

-----------------------------------------------------------------------------
(* Properties of the TTM revenue of a period *)

\* the row of income_df behind the p-th entry of quarterly_revenues
WindowRow(p) == fin.income_df[fin.current_index - 3 + p]

\* the rows before row i that lie in the calendar year of row i
EarlierSameYear(i) ==
    {j \in 1..(i - 1) :
        Year(fin.income_df[j].report_date) = Year(fin.income_df[i].report_date)}

Largest(S) == CHOOSE j \in S : \A k \in S : j >= k

Minus(x, y) == IF x.t = "num" /\ y.t = "num" THEN Num(x.v - y.v) ELSE NaN

\* the window of the call is the four quarters of one year, with numeric
\* cumulative revenues that never fall
OneYearWindow ==
    /\ fin.current_index >= 3
    /\ fin.current_index + 1 <= Len(fin.income_df)
    /\ \A p \in 1..4 :
          /\ Month(WindowRow(p).report_date) = 3 * p
          /\ Year(WindowRow(p).report_date) = Year(WindowRow(1).report_date)
          /\ WindowRow(p).operating_revenue.t = "num"
    /\ \A p \in 1..3 :
          WindowRow(p).operating_revenue.v <= WindowRow(p + 1).operating_revenue.v

\* C16: for the four periods of one fiscal year with cumulative revenues
\* c1 <= c2 <= c3 <= c4 the single-quarter values are c1, c2 - c1, c3 - c2,
\* c4 - c3 and the TTM revenue of the fourth period is c4.
C16_OneYearTtm ==
    (fout # Pending /\ OneYearWindow) =>
        LET c == [p \in 1..4 |-> WindowRow(p).operating_revenue.v]
        IN  /\ fout.v.quarterly_revenues =
                  <<Num(c[1]), Num(c[2] - c[1]), Num(c[3] - c[2]), Num(c[4] - c[3])>>
            /\ fout.v.res = Num(c[4])

\* the TTM revenue of a year with cumulative revenues 0, 1, 2, 4 has been
\* returned
C16_Witness ==
    /\ fout # Pending /\ OneYearWindow
    /\ [p \in 1..4 |-> WindowRow(p).operating_revenue] =
           <<Num(0), Num(1), Num(2), Num(4)>>
    /\ fout.v.res = Num(4)

\* C17: each entry of quarterly_revenues is the cumulative revenue of its
\* period when the period's month is 3 or no earlier period of the same
\* calendar year exists, and otherwise the cumulative revenue minus that of
\* the nearest earlier period of the same year.
C17_QuarterClassification ==
    fout # Pending =>
        \A p \in 1..Len(fout.v.quarterly_revenues) :
            LET i == fin.current_index - 3 + p
                row == fin.income_df[i]
            IN  fout.v.quarterly_revenues[p] =
                    IF Month(row.report_date) = 3 \/ EarlierSameYear(i) = {}
                    THEN row.operating_revenue
                    ELSE Minus(row.operating_revenue,
                               fin.income_df[Largest(EarlierSameYear(i))].operating_revenue)

\* a TTM revenue has been summed over a window whose first period is no
\* first quarter and has no earlier period of its year, and whose third
\* period follows two periods of its own year
C17_Witness ==
    /\ fout # Pending
    /\ Len(fout.v.quarterly_revenues) = 4
    /\ fout.v.res.t = "num"
    /\ Month(WindowRow(1).report_date) # 3
    /\ EarlierSameYear(fin.current_index - 2) = {}
    /\ Cardinality(EarlierSameYear(fin.current_index)) = 2
    /\ fout.v.quarterly_revenues[3].v > 0

-----------------------------------------------------------------------------
(* Properties of the indicator rows of a company *)

IndEnded == ind.st \in {"returned", "raised"}

\* no value: None, or nan in a DataFrame column
NoValue(x) == x = None \/ x = NaN

\* the natural log of a strictly positive ratio
LogOfPositive(x) == x.t = "log" /\ x.v[1] * x.v[2] > 0

\* the indicator rows computed so far, the one under construction included
IndRows == IF ind.st \in {"lt", "rest"} THEN Append(ind.results, ind.row)
           ELSE ind.results

Missing(x) == x = None \/ x = NaN

\* C19: when the run over the merged periods has ended, every period has
\* its row; the receivables turnover of the first period and of a period
\* whose opening or closing balance is missing is no value, and that of any
\* other period with TTM revenue and a non-zero average is the ratio of the
\* TTM revenue to the average of the previous and the current balance.
C19_TurnoverEndpoints ==
    IndEnded =>
        \A k \in 1..Len(MergedDf(fin)) :
            /\ k <= Len(ind.results)
            /\ LET m == MergedDf(fin)
                   t == calculate_ttm_revenue_for_period(fin.income_statement, k - 1).res
                   r == ind.results[k].ar_turnover
               IN  IF k = 1 THEN NoValue(r)
                   ELSE IF Missing(m[k - 1].accounts_receivable)
                           \/ Missing(m[k].accounts_receivable)
                        THEN NoValue(r)
                   ELSE (t.t = "num" /\ t.v # 0
                         /\ m[k - 1].accounts_receivable.v + m[k].accounts_receivable.v # 0)
                        => /\ r.t \in {"frac", "log"}
                           /\ r.v[2] # 0
                           /\ r.v[1] * (m[k - 1].accounts_receivable.v
                                        + m[k].accounts_receivable.v)
                              = 2 * t.v * r.v[2]

\* C20: the run over the merged periods never ends in an exception: it
\* returns, with exactly one indicator row for each merged period.
C20_OneRowPerPeriod ==
    IndEnded =>
        /\ ind.st = "returned"
        /\ Len(ind.results) = Len(MergedDf(fin))
        /\ \A k \in 1..Len(ind.results) :
              ind.results[k].report_date = MergedDf(fin)[k].report_date

-----------------------------------------------------------------------------
(* Properties of the TTM revenue: negative quarters and short histories *)

\* the single-quarter revenue of row i as the classification by month and
\* year gives it
SingleQuarter(i) ==
    LET row == fin.income_df[i]
    IN  IF Month(row.report_date) = 3 \/ EarlierSameYear(i) = {}
        THEN row.operating_revenue
        ELSE Minus(row.operating_revenue,
                   fin.income_df[Largest(EarlierSameYear(i))].operating_revenue)

\* the rows of the window that lie inside the table
WindowRows ==
    {i \in (fin.current_index - 2)..(fin.current_index + 1) :
        i >= 1 /\ i <= Len(fin.income_df)}

HasNegativeQuarter ==
    \E i \in WindowRows : SingleQuarter(i).t = "num" /\ SingleQuarter(i).v < 0

\* C30: the TTM revenue of a period is None when one of the single-quarter
\* revenues of its window is negative, and when the period has fewer than
\* three predecessors.
C30_NegativeQuarterNoTtm ==
    fout # Pending =>
        /\ fin.current_index < 3 => fout.v.res = None
        /\ (fin.current_index >= 3 /\ HasNegativeQuarter) => fout.v.res = None

\* None has been returned for a window inside the table whose last quarter
\* alone is negative, the three before it summing to more than its deficit
C30_Witness ==
    /\ fout # Pending
    /\ fin.current_index >= 3
    /\ fin.current_index + 1 <= Len(fin.income_df)
    /\ \A i \in WindowRows : SingleQuarter(i).t = "num"
    /\ SingleQuarter(fin.current_index + 1).v < 0
    /\ \A i \in WindowRows : i <= fin.current_index => SingleQuarter(i).v > 0
    /\ fout.v.res = None

-----------------------------------------------------------------------------
(* Properties of the TTM revenue attached to an indicator row *)

\* the position in income_df of the row of date d, counted from 0
IncomeIndexOf(d) ==
    (CHOOSE k \in 1..Len(fin.income_statement) :
        fin.income_statement[k].report_date = d) - 1

\* C24: the TTM revenue computed for a merged period is that of the income
\* row of the same report_date with the three income rows before it (None
\* when the income table has no row of that date), and the lookup never
\* runs past the end of the income table.
C24_TtmOfSamePeriod ==
    ind.st \in {"lt", "rest", "raised"} =>
        /\ ~Raised(ind.ttm)
        /\ LET d == MergedDf(fin)[ind.i + 1].report_date
           IN  IF d \in DatesOf(fin.income_statement)
               THEN ind.ttm = calculate_ttm_revenue_for_period(
                                  fin.income_statement, IncomeIndexOf(d)).res
               ELSE ind.ttm = None

-----------------------------------------------------------------------------
(* Properties of a cache hit *)

\* instance a takes a step of calculate_market_median out of "idle"
CallStep(a) ==
    /\ pc[a] = "idle"
    /\ pc'[a] # "clear_db"
    /\ pc'[a] # pc[a] \/ cur'[a] # cur[a] \/ arg'[a] # arg[a]

\* C25: a call whose key has an entry in a tier returns the value stored
\* there whatever sample it was given: the in-process entry when there is
\* one, otherwise the median of the key's persistent row.
C25_HitIgnoresSample ==
    [][\A a \in Analyzers :
          /\ \A d \in RaceDates :
                (CallStep(a) /\ CacheKey(RaceInd, d, ver[a]) \in DOMAIN mem[a]
                             /\ arg'[a].date = d) =>
                    /\ pc'[a] = "idle"
                    /\ cur'[a].done
                    /\ cur'[a].res = mem[a][CacheKey(RaceInd, d, ver[a])]
                    /\ table' = table /\ mem' = mem
          /\ (/\ pc[a] = "lookup"
              /\ pc'[a] # pc[a]
              /\ HasRow(table, arg[a].ind, arg[a].date, ver[a])) =>
                    /\ pc'[a] = "idle"
                    /\ cur'[a].done
                    /\ \E k \in 1..Len(table) :
                          /\ table[k].indicator_name = arg[a].ind
                          /\ table[k].report_date = arg[a].date
                          /\ table[k].cache_version = ver[a]
                          /\ cur'[a].res = table[k].median_value
                    /\ table' = table]_vars

\* a1 has been answered from its in-process cache on an empty sample, and
\* a2 from the persistent row on a sample whose own median is another value
C25_Witness ==
    /\ cur["a1"].out = "mem" /\ arg["a1"].sample = <<>>
    /\ cur["a1"].res.t = "num"
    /\ cur["a2"].out = "db"
    /\ Compute(arg["a2"].sample).k = "value"
    /\ Compute(arg["a2"].sample).v # cur["a2"].res

-----------------------------------------------------------------------------
(* Properties of a call that finds no valid member *)

\* C26: a call that misses both tiers and whose sample has no valid member
\* returns None and leaves both tiers as they were; a call that misses both
\* tiers with a valid member computes the median of its own sample, and the
\* save that still finds no row stores that median in both tiers.
C26_NoValueNotCached ==
    [][\A a \in Analyzers :
          /\ (/\ pc[a] = "lookup"
              /\ pc'[a] # pc[a]
              /\ ~HasRow(table, arg[a].ind, arg[a].date, ver[a])
              /\ ~HasGarbage(arg[a].sample)) =>
                    /\ table' = table
                    /\ mem' = mem
                    /\ IF ValidAt(arg[a].sample) = {}
                       THEN pc'[a] = "idle" /\ cur'[a].done /\ cur'[a].res = None
                       ELSE pc'[a] = "save_check"
                            /\ loc'[a] = StdMedian(arg[a].sample)
          /\ (/\ pc[a] = "save_commit"
              /\ pc'[a] # pc[a]
              /\ ~HasRow(table, arg[a].ind, arg[a].date, ver[a])) =>
                    /\ cur'[a].res = loc[a]
                    /\ mem'[a][CacheKey(arg[a].ind, arg[a].date, ver[a])] = loc[a]
                    /\ \E k \in 1..Len(table') :
                          /\ RowKey(table'[k]) = CacheKey(arg[a].ind, arg[a].date, ver[a])
                          /\ table'[k].median_value = loc[a]]_vars

\* a1's call on the empty sample has returned None, and after it a2 has
\* stored the median of its own sample under the same key
C26_Witness ==
    /\ ver["a1"] = ver["a2"]
    /\ cur["a1"].done /\ cur["a1"].out = "empty" /\ arg["a1"].sample = <<>>
    /\ cur["a2"].done /\ cur["a2"].out = "inserted"
    /\ Len(table) = 1
    /\ table[1].median_value = cur["a2"].res
    /\ CacheKey(RaceInd, "d1", ver["a1"]) \notin DOMAIN mem["a1"]

-----------------------------------------------------------------------------
(* analyzer.py 104-152: calculate_distribution on its own. fin is the pair   *)
(* of its arguments; a value 2 * k of the sample stands for the float k, so  *)
(* that one half is 1.                                                       *)

MaxBins == 3

RECURSIVE SeqSum(_)
SeqSum(vs) == IF vs = <<>> THEN 0 ELSE vs[1] + SeqSum(Tail(vs))

SeqMin(vs) == Sorted(vs)[1]
SeqMax(vs) == Sorted(vs)[Len(vs)]

\* numpy's _get_outer_edges: the range of the data, widened by one half on
\* each side when the data has a single value
OuterEdges(vs) ==
    IF SeqMin(vs) = SeqMax(vs)
    THEN [first |-> SeqMin(vs) - 1, last |-> SeqMax(vs) + 1]
    ELSE [first |-> SeqMin(vs), last |-> SeqMax(vs)]

\* a binning whose last bin is half-open like the others
BinOfHalfOpen(x, first, last, b) == ((x - first) * b) \div (last - first) + 1

\* the bin of x among b equal-width bins: each is half-open but the last,
\* which holds the last edge too
BinOf(x, first, last, b) ==
    IF x = last THEN b ELSE ((x - first) * b) \div (last - first) + 1

\* hist, bin_edges = np.histogram(values_array, bins=bins); the edges are
\* np.linspace(first, last, bins + 1), written over the denominator bins
np_histogram(vs, b) ==
    LET e == OuterEdges(vs)
    IN  [hist |-> [j \in 1..b |->
                     Cardinality({k \in 1..Len(vs) : BinOf(vs[k], e.first, e.last, b) = j})],
         bin_edges |-> [j \in 1..(b + 1) |->
                     Frac(e.first * b + (j - 1) * (e.last - e.first), b)]]

\* np.percentile(values_array, q) for q = 25 * quarters: linear interpolation
\* at the index quarters * (n - 1) / 4 of the sorted values
NpPercentile(vs, quarters) ==
    LET srt == Sorted(vs)
        at == quarters * (Len(vs) - 1)
        lo == at \div 4 + 1
        hi == IF at % 4 = 0 THEN lo ELSE lo + 1
    IN  Frac(srt[lo] * (4 - (at % 4)) + srt[hi] * (at % 4), 4)

\* np.std(values_array): the root of the population variance
NpStd(vs) ==
    LET n == Len(vs)
        sq == SeqSum([k \in 1..n |-> vs[k] * vs[k]])
    IN  [t |-> "sqrt", v |-> <<n * sq - SeqSum(vs) * SeqSum(vs), n * n>>]

\* lines 129-150: the result of a sample with a valid member
Distribution(vs, b) ==
    [t |-> "dist",
     histogram |-> np_histogram(vs, b).hist,
     bin_edges |-> np_histogram(vs, b).bin_edges,
     statistics |-> [mean |-> Frac(SeqSum(vs), Len(vs)),
                     median |-> NpMedian(vs),
                     std |-> NpStd(vs),
                     min |-> SeqMin(vs),
                     max |-> SeqMax(vs),
                     q25 |-> NpPercentile(vs, 1),
                     q75 |-> NpPercentile(vs, 3),
                     count |-> Len(vs)]]

\* calculate_distribution(indicator_values, bins): np.isnan raises on a
\* value that is no number and np.histogram raises on bins < 1; the except
\* clause of lines 151-152 turns both into None
calculate_distribution(s, b) ==
    IF IsNanRaises(s) THEN None
    ELSE IF ValidValues(s) = <<>> THEN None
    ELSE IF b < 1 THEN None
    ELSE Distribution(ValidValues(s), b)

InitDist ==
    /\ ver = [a \in Analyzers |-> "v1"]
    /\ audit = FALSE
    /\ InitCache
    /\ ind = NoInd
    /\ stmt = <<>>
    /\ upd = NoUpd
    /\ cmp = NoCmp
    /\ fin \in [sample : Samples, bins : 0..MaxBins]
    /\ fout = Pending

Distribute ==
    /\ fout = Pending
    /\ fout' = calculate_distribution(fin.sample, fin.bins)
    /\ UNCHANGED <<table, ver, mem, pc, arg, loc, cur, prv, audit, cmp, fin, ind, stmt, upd>>

SpecDist == InitDist /\ [][Distribute]_vars

-----------------------------------------------------------------------------
(* Properties of calculate_distribution *)

\* the call has returned, for a sample of numbers, None and NaN and one bin
\* at least
DistReturned == fout # Pending /\ ~IsNanRaises(fin.sample) /\ fin.bins >= 1

\* the counts, the statistics and the number and order of the edges
DistShape ==
    LET vs == ValidValues(fin.sample)
        b == fin.bins
    IN  /\ fout # None
        /\ Len(fout.histogram) = b
        /\ SeqSum(fout.histogram) = Len(vs)
        /\ Len(fout.bin_edges) = b + 1
        /\ \A j \in 1..b :
              fout.bin_edges[j].v[1] * fout.bin_edges[j + 1].v[2]
                  < fout.bin_edges[j + 1].v[1] * fout.bin_edges[j].v[2]
        /\ fout.statistics.count = Len(vs)
        /\ fout.statistics.min = SeqMin(vs)
        /\ fout.statistics.max = SeqMax(vs)

\* the edges run from lo to hi
EdgesSpan(lo, hi) ==
    /\ fout.bin_edges[1].v[1] = lo * fout.bin_edges[1].v[2]
    /\ fout.bin_edges[fin.bins + 1].v[1] = hi * fout.bin_edges[fin.bins + 1].v[2]

\* C22 as stated: a sample with a valid member gives b counts that sum to the
\* number of valid members, b + 1 ascending edges from the sample minimum to
\* the sample maximum and statistics with the count, minimum and maximum of
\* the valid members; a sample without a valid member gives no value
C22_EdgesFromMinToMax ==
    DistReturned =>
        IF ValidValues(fin.sample) = <<>> THEN fout = None
        ELSE /\ DistShape
             /\ EdgesSpan(SeqMin(ValidValues(fin.sample)),
                          SeqMax(ValidValues(fin.sample)))

\* C22 amended: as above, but the edges run from the minimum to the maximum
\* only when the two differ; when every valid member has the same value the
\* edges run from that value less one half to that value plus one half
C22_EdgesFromOuterEdges ==
    DistReturned =>
        IF ValidValues(fin.sample) = <<>> THEN fout = None
        ELSE LET vs == ValidValues(fin.sample)
             IN  /\ DistShape
                 /\ SeqMin(vs) < SeqMax(vs) => EdgesSpan(SeqMin(vs), SeqMax(vs))
                 /\ SeqMin(vs) = SeqMax(vs) => EdgesSpan(SeqMin(vs) - 1, SeqMax(vs) + 1)

\* a distribution of several bins was returned for a sample of one value
\* and a missing member
C22_Witness ==
    /\ DistReturned
    /\ fout # None
    /\ fin.bins > 1
    /\ Len(ValidValues(fin.sample)) < Len(fin.sample)
    /\ SeqMin(ValidValues(fin.sample)) = SeqMax(ValidValues(fin.sample))

-----------------------------------------------------------------------------
(* orchestrator.py 60-114: Orchestrator.analyze_company around the loop of   *)
(* _compare_with_market, for one indicator column.  fin holds, next to the   *)
(* series and the market samples of the comparison, ready (the database has  *)
(* a balance sheet) and found (_get_company_data returned the three tables); *)
(* series is the indicator's column of the frame _calculate_indicators gave. *)

\* bins: int = 20
DefaultBins == 20

InitAnalyze ==
    /\ ver = [a \in Analyzers |-> "v1"]
    /\ audit = FALSE
    /\ InitCache
    /\ ind = NoInd
    /\ stmt = <<>>
    /\ upd = NoUpd
    /\ fout = Pending
    /\ \E i \in Indicators :
          cmp = [path |-> "", st |-> "init", ind |-> i, series |-> <<>>,
                 market |-> <<>>, idx |-> 0, rows |-> <<>>]
    /\ fin \in [path : {"orchestrator"},
                series : {q \in SeriesOver(MaxSeries) : Ascending(q)},
                market : [Dates -> CmpSamples],
                ready : BOOLEAN,
                found : BOOLEAN]

\* lines 81-90: return None on an empty database or a company without data
AnalyzeRefuse ==
    /\ cmp.st = "init"
    /\ ~(fin.ready /\ fin.found)
    /\ fout' = None
    /\ cmp' = [cmp EXCEPT !.st = "returned"]
    /\ UNCHANGED <<table, ver, mem, pc, arg, loc, cur, prv, audit, fin, ind, stmt, upd>>

\* lines 93-96: the indicators are there and the comparison begins
AnalyzeStart ==
    /\ fin.ready
    /\ fin.found
    /\ CmpStart

\* company_data['report_date'].max() of the rows that are not null
LatestDate(series) ==
    CHOOSE d \in {series[k].date : k \in 1..Len(series)} :
        \A k \in 1..Len(series) : DateNo(series[k].date) <= DateNo(d)

\* orchestrator.py 486-498: the indicator gets its key only when a row was
\* collected, and then the distribution of the latest date when that date
\* has market values
MarketComparison ==
    IF cmp.rows = <<>> THEN <<>>
    ELSE LET latest == cmp.market[LatestDate(cmp.series)]
         IN  IF Len(latest) # 0
             THEN (cmp.ind :> cmp.rows)
                  @@ ((cmp.ind \o <<"_distribution">>)
                         :> calculate_distribution(latest, DefaultBins))
             ELSE (cmp.ind :> cmp.rows)

\* lines 102-114: the result is assembled and returned
AnalyzeReturn ==
    /\ cmp.st = "done"
    /\ fout' = [t |-> "result",
                indicators |-> fin.series,
                market_comparison |-> MarketComparison]
    /\ cmp' = [cmp EXCEPT !.st = "returned"]
    /\ UNCHANGED <<table, ver, mem, pc, arg, loc, cur, prv, audit, fin, ind, stmt, upd>>

NextAnalyze ==
    \/ AnalyzeRefuse
    \/ AnalyzeStart
    \/ CmpSkip
    \/ CmpCall
    \/ DbLookup("a1")
    \/ SaveCheck("a1")
    \/ SaveCommit("a1")
    \/ CmpCollect
    \/ CmpFinish
    \/ AnalyzeReturn

SpecAnalyze == InitAnalyze /\ [][NextAnalyze]_vars

-----------------------------------------------------------------------------
(* Properties of analyze_company *)

\* C21: analyze_company never returns a successful result whose market
\* comparison for the indicator is absent or empty: a company or a series
\* without a usable period gets an outcome the caller can tell from success
C21_NoEmptySuccess ==
    (fout # Pending /\ fout # None) =>
        /\ cmp.ind \in DOMAIN fout.market_comparison
        /\ fout.market_comparison[cmp.ind] # <<>>

-----------------------------------------------------------------------------
(* data_provider/repository.py 96-156: Repository._save_financial_data on   *)
(* one statement table.  A row of a frame is its stock_code, its            *)
(* report_date and the rest of it, val; a key cell that is missing (None,   *)
(* NaN, or a date _convert_to_date cannot read) is Null, as                 *)
(* _prepare_data_dict leaves it.                                            *)

MaxFrame == 2

Null == "NULL"

FrameRows ==
    {[stock_code |-> "s1", report_date |-> "d1", val |-> 1],
     [stock_code |-> "s1", report_date |-> "d1", val |-> 2],
     [stock_code |-> "s1", report_date |-> "d2", val |-> 1],
     [stock_code |-> "s2", report_date |-> "d1", val |-> 1],
     [stock_code |-> "s1", report_date |-> Null, val |-> 1],
     [stock_code |-> Null, report_date |-> "d1", val |-> 1]}

Frames == SeqsUpTo(FrameRows, MaxFrame)

\* models.py 50-51: stock_code and report_date are nullable=False
NullKey(r) == r.stock_code = Null \/ r.report_date = Null

\* session.query(model_class).filter_by(stock_code=..., report_date=...)
\* .first(): a row of the session with both columns equal; a comparison with
\* NULL matches no row
Existing(rows, r) ==
    \E k \in 1..Len(rows) :
        /\ ~NullKey(r)
        /\ rows[k].stock_code = r.stock_code
        /\ rows[k].report_date = r.report_date

\* return added_count, skipped_count
Counts(added, skipped) == [t |-> "counts", v |-> <<added, skipped>>]

\* lines 128-148: the loop over the rows.  rows is what the session sees:
\* the table and the records added so far, which the query flushes first
\* (sessionmaker's autoflush).  A record with a NULL key fails the NOT NULL
\* constraint at the flush that follows its add, that of the next query or
\* of the commit, outside the inner try
RECURSIVE SaveRows(_, _, _, _)
SaveRows(rows, frame, added, skipped) ==
    IF frame = <<>> THEN [table |-> rows, res |-> Counts(added, skipped)]
    ELSE IF Existing(rows, frame[1])
         THEN SaveRows(rows, Tail(frame), added, skipped + 1)
    ELSE IF NullKey(frame[1])
         THEN [table |-> rows, res |-> Raise("IntegrityError")]
    ELSE SaveRows(Append(rows, frame[1]), Tail(frame), added + 1, skipped)

\* _save_financial_data(df, model_class, column_mapping): (0, 0) for an empty
\* frame; session.commit() keeps the added rows; except: session.rollback()
\* and raise
SaveFinancialData(tbl, frame) ==
    IF frame = <<>> THEN [table |-> tbl, res |-> Counts(0, 0)]
    ELSE LET out == SaveRows(tbl, frame, 0, 0)
         IN  IF Raised(out.res) THEN [table |-> tbl, res |-> out.res]
             ELSE out

InitSave ==
    /\ ver = [a \in Analyzers |-> "v1"]
    /\ audit = FALSE
    /\ InitCache
    /\ ind = NoInd
    /\ stmt = <<>>
    /\ upd = NoUpd
    /\ cmp = NoCmp
    /\ fin = <<>>
    /\ fout = Pending

\* one call of save_balance_sheets (or of its two siblings) on a frame; fin
\* keeps the frame of the call and fout its outcome, the table before it and
\* whether the frame is the one of the call before
Save ==
    \E frame \in Frames :
        /\ stmt' = SaveFinancialData(stmt, frame).table
        /\ fin' = frame
        /\ fout' = [t |-> "saved",
                    res |-> SaveFinancialData(stmt, frame).res,
                    before |-> stmt,
                    again |-> fout # Pending /\ fin = frame]
        /\ UNCHANGED <<table, ver, mem, pc, arg, loc, cur, prv, audit, cmp, ind, upd>>

SpecSave == InitSave /\ [][Save]_vars

-----------------------------------------------------------------------------
(* Properties of statement saving *)

\* the rows of the frame whose key the table before the call held
StoredBefore ==
    Cardinality({k \in 1..Len(fin) : Existing(fout.before, fin[k])})

\* C27: the table has at most one row per (stock_code, report_date); a save
\* leaves every stored row unchanged and counts as skipped each row whose
\* key was stored; saving the same n-row frame a second time returns (0, n)
\* with the table unchanged
C27_SkipDuplicateIdempotent ==
    /\ \A j, k \in 1..Len(stmt) :
          (stmt[j].stock_code = stmt[k].stock_code
              /\ stmt[j].report_date = stmt[k].report_date) => j = k
    /\ fout # Pending =>
          /\ SubSeq(stmt, 1, Len(fout.before)) = fout.before
          /\ ~Raised(fout.res) => fout.res.v[2] >= StoredBefore
          /\ fout.again => (fout.res = Counts(0, Len(fin)) /\ stmt = fout.before)

-----------------------------------------------------------------------------
(* data_provider/akshare_client.py 211-251: AkshareClient.                   *)
(* _fetch_financial_data.  fin holds retry_times and the outcomes the        *)
(* provider has in store, one per call: an exception, None, or a table of v  *)
(* rows.  fout is the number of calls made and what the method returned.     *)

MaxRetry == 3

Df(n) == [t |-> "df", v |-> n]

ProviderOutcomes == {Raise("Exception"), None, Df(0), Df(1), Df(2)}

\* df is not None and not df.empty
NonEmpty(df) == df.t = "df" /\ df.v > 0

\* a loop that goes on to the next attempt after an empty table
RECURSIVE FetchLoopPastEmpty(_, _, _)
FetchLoopPastEmpty(outcomes, attempt, retry_times) ==
    IF attempt >= retry_times THEN [calls |-> attempt, res |-> None]
    ELSE IF NonEmpty(outcomes[attempt + 1])
         THEN [calls |-> attempt + 1, res |-> outcomes[attempt + 1]]
    ELSE FetchLoopPastEmpty(outcomes, attempt + 1, retry_times)

\* for attempt in range(self.retry_times): the call returns a table, which
\* ends the loop with the table or with None, or raises, which ends it with
\* None on the last attempt alone
RECURSIVE FetchLoop(_, _, _)
FetchLoop(outcomes, attempt, retry_times) ==
    IF attempt >= retry_times THEN [calls |-> attempt, res |-> None]
    ELSE IF Raised(outcomes[attempt + 1])
         THEN IF attempt < retry_times - 1
              THEN FetchLoop(outcomes, attempt + 1, retry_times)
              ELSE [calls |-> attempt + 1, res |-> None]
    ELSE IF NonEmpty(outcomes[attempt + 1])
         THEN [calls |-> attempt + 1, res |-> outcomes[attempt + 1]]
    ELSE [calls |-> attempt + 1, res |-> None]

InitFetch ==
    /\ ver = [a \in Analyzers |-> "v1"]
    /\ audit = FALSE
    /\ InitCache
    /\ ind = NoInd
    /\ stmt = <<>>
    /\ upd = NoUpd
    /\ cmp = NoCmp
    /\ fin \in [retry_times : 0..MaxRetry,
                outcomes : [1..(MaxRetry + 1) -> ProviderOutcomes]]
    /\ fout = Pending

FetchFinancialData ==
    /\ fout = Pending
    /\ fout' = FetchLoop(fin.outcomes, 0, fin.retry_times)
    /\ UNCHANGED <<table, ver, mem, pc, arg, loc, cur, prv, audit, cmp, fin, ind, stmt, upd>>

SpecFetch == InitFetch /\ [][FetchFinancialData]_vars

-----------------------------------------------------------------------------
(* Properties of _fetch_financial_data *)

\* the calls among the first retry_times that return instead of raising
Returning == {k \in 1..fin.retry_times : ~Raised(fin.outcomes[k])}

FirstReturning == CHOOSE k \in Returning : \A j \in Returning : k <= j

\* C28: the provider is called at most retry_times times; the first call
\* that returns ends the loop, with its table when that is not empty and
\* with None when it is; when retry_times calls have all raised the method
\* returns None and does not raise
C28_FetchRetries ==
    fout # Pending =>
        /\ fout.calls <= fin.retry_times
        /\ ~Raised(fout.res)
        /\ IF Returning = {} THEN fout.calls = fin.retry_times /\ fout.res = None
           ELSE /\ fout.calls = FirstReturning
                /\ fout.res = IF NonEmpty(fin.outcomes[FirstReturning])
                              THEN fin.outcomes[FirstReturning]
                              ELSE None

\* after a call that raised, an empty table ended the loop although the
\* next call had a table in store
C28_Witness ==
    /\ fout # Pending
    /\ fin.retry_times = 3
    /\ Raised(fin.outcomes[1])
    /\ fin.outcomes[2] = Df(0)
    /\ NonEmpty(fin.outcomes[3])
    /\ fout.calls = 2

-----------------------------------------------------------------------------
(* data_updater_robust.py and data_updater_concurrent.py: one batch of an    *)
(* updater.  upd.kind tells the two apart: their process_single_stock is     *)
(* the same (robust 147-197, concurrent 63-112), and only the robust main    *)
(* keeps a ProgressTracker.  A task is the call of process_single_stock for  *)
(* one stock on a thread of the pool; stmt holds the three statement tables. *)

MaxWorkers == 2

UpdStocks == {"s1", "s2", "s3"}
Kinds == <<"balance_sheet", "income_statement", "cash_flow_statement">>
InSection == {"balance_sheet", "income_statement", "cash_flow_statement", "exit", "raise"}

\* what get_all_financial_data holds for one statement of stock s: None, a
\* frame of one row, or a frame whose row has no report_date
StockData(s) ==
    {None,
     Df(<<[stock_code |-> s, report_date |-> "d1", val |-> 1]>>),
     Df(<<[stock_code |-> s, report_date |-> Null, val |-> 1]>>)}

\* the statement saved after kind, or the end of the with block
AfterKind(kind) ==
    IF kind = Kinds[1] THEN Kinds[2] ELSE IF kind = Kinds[2] THEN Kinds[3] ELSE "exit"

InitUpd ==
    /\ ver = [a \in Analyzers |-> "v1"]
    /\ audit = FALSE
    /\ InitCache
    /\ ind = NoInd
    /\ cmp = NoCmp
    /\ fin = <<>>
    /\ fout = Pending
    /\ stmt = [k \in {Kinds[j] : j \in 1..3} |-> <<>>]
    /\ \E kind \in {"robust", "concurrent"} :
          upd = [st |-> "run",
                 kind |-> kind,
                 task |-> [s \in UpdStocks |-> "queued"],
                 success |-> [s \in UpdStocks |-> FALSE],
                 db_lock |-> "free",
                 progress_lock |-> "free",
                 main |-> [pc |-> "loop", stock |-> ""],
                 collected |-> {},
                 processed_stocks |-> {},
                 failed_stocks |-> {},
                 file |-> [processed |-> {}, failed |-> {}]]

\* a thread of the pool takes the task: at most max_workers run at a time
Submit(s) ==
    /\ upd.st = "run"
    /\ upd.task[s] = "queued"
    /\ Cardinality({x \in UpdStocks : upd.task[x] \notin {"queued", "done"}}) < MaxWorkers
    /\ upd' = [upd EXCEPT !.task[s] = "fetch"]
    /\ UNCHANGED <<table, ver, mem, pc, arg, loc, cur, prv, audit, cmp, fin, fout, ind, stmt>>

\* data = client.get_all_financial_data(stock_code)
FetchAll(s) ==
    /\ upd.st = "run"
    /\ upd.task[s] = "fetch"
    /\ upd' = [upd EXCEPT !.task[s] = "wait"]
    /\ UNCHANGED <<table, ver, mem, pc, arg, loc, cur, prv, audit, cmp, fin, fout, ind, stmt>>

\* a task that enters the section without the lock
DbAcquireUnlocked(s) ==
    /\ upd.st = "run"
    /\ upd.task[s] = "wait"
    /\ upd' = [upd EXCEPT !.task[s] = Kinds[1], !.db_lock = s]
    /\ UNCHANGED <<table, ver, mem, pc, arg, loc, cur, prv, audit, cmp, fin, fout, ind, stmt>>

\* with db_lock: the task blocks until the lock is free and takes it
DbAcquire(s) ==
    /\ upd.st = "run"
    /\ upd.task[s] = "wait"
    /\ upd.db_lock = "free"
    /\ upd' = [upd EXCEPT !.task[s] = Kinds[1], !.db_lock = s]
    /\ UNCHANGED <<table, ver, mem, pc, arg, loc, cur, prv, audit, cmp, fin, fout, ind, stmt>>

\* one of the three saves: passed over when the statement is None; a save
\* that raises leaves the with block at once
SaveStatement(s) ==
    /\ upd.st = "run"
    /\ upd.task[s] \in {Kinds[j] : j \in 1..3}
    /\ \E data \in StockData(s) :
          LET kind == upd.task[s]
              out == SaveFinancialData(stmt[kind], data.v)
          IN  IF data = None
              THEN /\ upd' = [upd EXCEPT !.task[s] = AfterKind(kind)]
                   /\ stmt' = stmt
              ELSE IF Raised(out.res)
              THEN /\ upd' = [upd EXCEPT !.task[s] = "raise"]
                   /\ stmt' = stmt
              ELSE /\ upd' = [upd EXCEPT !.task[s] = AfterKind(kind)]
                   /\ stmt' = [stmt EXCEPT ![kind] = out.table]
    /\ UNCHANGED <<table, ver, mem, pc, arg, loc, cur, prv, audit, cmp, fin, fout, ind>>

\* the end of the with block, reached by the last save or by an exception:
\* the lock is released, and the task returns its result
DbRelease(s) ==
    /\ upd.st = "run"
    /\ upd.task[s] \in {"exit", "raise"}
    /\ upd' = [upd EXCEPT !.task[s] = "done",
                          !.success[s] = (upd.task[s] = "exit"),
                          !.db_lock = "free"]
    /\ UNCHANGED <<table, ver, mem, pc, arg, loc, cur, prv, audit, cmp, fin, fout, ind, stmt>>

\* ProgressTracker.save_progress: the file gets the sets of the tracker
Written(u) == [processed |-> u.processed_stocks, failed |-> u.failed_stocks]

\* a step of the main thread.
\*   loop:    for future in as_completed(futures): the result of a finished
\*            task is taken; the concurrent main counts it, the robust main
\*            calls mark_processed or mark_failed; the run ends when every
\*            task is collected
\*   mark:    mark_processed / mark_failed: with progress_lock, then the
\*            stock is recorded in memory and save_progress is called
\*   save:    save_progress: with progress_lock, then the file is written
\*   written: the with block of save_progress ends and releases the lock
\*   unwind:  the with block of mark_* ends: it releases a lock that is not
\*            locked, which raises RuntimeError
\* threading.Lock is not reentrant: acquiring blocks while the lock is held,
\* by whichever thread.
MainStep ==
    /\ upd.st = "run"
    /\ IF upd.main.pc = "loop"
       THEN IF upd.collected = UpdStocks
            THEN upd' = [upd EXCEPT !.main.pc = "finished"]
            ELSE \E s \in UpdStocks \ upd.collected :
                    /\ upd.task[s] = "done"
                    /\ upd' = [upd EXCEPT
                                 !.collected = upd.collected \cup {s},
                                 !.main = [pc |-> IF upd.kind = "robust"
                                                  THEN "mark" ELSE "loop",
                                           stock |-> s]]
       ELSE IF upd.main.pc = "mark"
       THEN /\ upd.progress_lock = "free"
            /\ upd' = [upd EXCEPT
                         !.progress_lock = "held",
                         !.processed_stocks =
                             IF upd.success[upd.main.stock]
                             THEN upd.processed_stocks \cup {upd.main.stock}
                             ELSE upd.processed_stocks,
                         !.failed_stocks =
                             IF upd.success[upd.main.stock]
                             THEN upd.failed_stocks \ {upd.main.stock}
                             ELSE upd.failed_stocks \cup {upd.main.stock},
                         !.main.pc = "save"]
       ELSE IF upd.main.pc = "save"
       THEN /\ upd.progress_lock = "free"
            /\ upd' = [upd EXCEPT !.progress_lock = "held",
                                  !.file = Written(upd),
                                  !.main.pc = "written"]
       ELSE IF upd.main.pc = "written"
       THEN upd' = [upd EXCEPT !.progress_lock = "free", !.main.pc = "unwind"]
       ELSE /\ upd.main.pc = "unwind"
            /\ upd' = [upd EXCEPT !.main.pc = "raised"]
    /\ UNCHANGED <<table, ver, mem, pc, arg, loc, cur, prv, audit, cmp, fin, fout, ind, stmt>>

NextUpd ==
    \/ \E s \in UpdStocks : Submit(s)
    \/ \E s \in UpdStocks : FetchAll(s)
    \/ \E s \in UpdStocks : DbAcquire(s)
    \/ \E s \in UpdStocks : SaveStatement(s)
    \/ \E s \in UpdStocks : DbRelease(s)
    \/ MainStep

SpecUpd == InitUpd /\ [][NextUpd]_vars

\* every thread that can take a step takes one in the end
UpdFairness ==
    /\ WF_vars(MainStep)
    /\ \A s \in UpdStocks :
          WF_vars(Submit(s) \/ FetchAll(s) \/ DbAcquire(s) \/ SaveStatement(s) \/ DbRelease(s))

SpecUpdLive == InitUpd /\ [][NextUpd]_vars /\ UpdFairness

-----------------------------------------------------------------------------
(* Properties of the updaters *)

\* the main thread has called mark_processed or mark_failed
MarkCalled == upd.st = "run" /\ upd.main.pc = "mark"

\* the call has returned with the stock in the progress file
MarkReturned ==
    /\ upd.main.pc \in {"loop", "finished"}
    /\ upd.main.stock \in upd.file.processed \cup upd.file.failed

\* C23: every call to mark_processed or mark_failed terminates, having
\* recorded the stock and written the progress file
C23_MarkTerminates == MarkCalled ~> MarkReturned

\* C29: at most one task is inside the database-write section at a time, the
\* lock is held by the task inside, and a task that has left the section,
\* by the last save or by a save that raised, does not hold the lock
C29_OneWriter ==
    upd.st = "run" =>
        /\ Cardinality({s \in UpdStocks : upd.task[s] \in InSection}) <= 1
        /\ \A s \in UpdStocks : upd.task[s] \in InSection => upd.db_lock = s
        /\ \A s \in UpdStocks : upd.task[s] \notin InSection => upd.db_lock # s

\* a task waits for the lock while another is inside the section, and a
\* third has left it by a save that raised
C29_Witness ==
    /\ upd.st = "run"
    /\ \E s, w, d \in UpdStocks :
          /\ upd.task[s] \in InSection
          /\ upd.task[w] = "wait"
          /\ upd.task[d] = "done"
          /\ ~upd.success[d]

=============================================================================
